---- MODULE Spec2Model ----
(***************************************************************************)
(* A model of usnan_fuse: the on-disk download cache (cache.py), the       *)
(* catalog listing cache (catalog.py) and the FUSE operation layer (fs.py).*)
(*                                                                         *)
(* Worker threads execute the handlers step by step; every step is one     *)
(* system call or one lock operation of the Python source.                 *)
(***************************************************************************)
EXTENDS Integers, Sequences, FiniteSets, TLC

\* ------------------------------------------------------------------------
\* Bounds of the model
\* ------------------------------------------------------------------------
MaxCalls == 3
MaxBudget == 4
MaxMtime == 3
MaxOps == 2
MaxIO == 2
MaxSearches == 3
MaxNow == 4

\* The worker threads of the FUSE driver.
Threads == {1, 2}
NoThread == 0

\* Dataset identifiers known to the remote service.  1 and 12 share a decimal
\* prefix.
Ids == {1, 2, 12}

\* Number of (unit-sized) files in the unwrapped content of a dataset, i.e.
\* what client.datasets.download + _unwrap leave in the staging directory.
DatasetSize(id) == CASE id = 1 -> 3 [] id = 2 -> 1 [] OTHER -> 2

VARIABLES
    max_bytes,     \* DownloadCache._max_bytes
    entry,         \* <root>/<id> on disk: [kind, n, mtime]
    tmp,           \* the staging directory .dl-<id>-* of each thread
    locks,         \* keys of DownloadCache._locks
    lockHolder,    \* holder of each per-dataset lock (NoThread: free)
    globalHolder,  \* holder of DownloadCache._global_lock
    clock,         \* the filesystem's time
    pc,            \* position of each thread in its handler
    arg,           \* dataset_id argument of the running ensure_downloaded
    err,           \* what raised in the running call
    sweep,         \* locals of _evict_if_needed: [left, entries, total, idx]
                   \* and the disk as the sweep found it (before)
    ret,           \* outcome of each thread's last finished call
    downloads,     \* number of invocations of client.datasets.download per id
    ncalls,        \* calls started per thread
    called,        \* identifiers ensure_downloaded was ever called with
    failed,        \* identifiers whose download or unwrap has failed
    others,        \* children of the cache root the cache did not make:
                   \* name -> kind
    authenticated, \* client._auth.authenticated
    custom_dirs,   \* DatasetCatalog._custom_dirs: names, in insertion order
    listings,      \* DatasetCatalog._cache: category key -> CachedListing
    time_now,      \* time.time()
    open_fds,      \* NMRHubFS._open_fds: handle -> OS file descriptor
    next_fh,       \* NMRHubFS._next_fh
    fsop,          \* the FUSE operation each thread is inside of
    fsret,         \* what the last finished FUSE operation handed back
    nops,          \* getattr, readdir and open operations started
    os_files,      \* the open OS file descriptors: descriptor -> real path
    os_pos,        \* the file offset of each open OS file descriptor
    nio,           \* read, release and mutating operations started
    service,       \* what the remote search answers, per category
    searches,      \* invocations of client.datasets.search, per category
    returned,      \* the listing the last direct get_listing call returned
    objects,       \* the CachedListing objects built so far, in the order of
                   \* their construction: [category, listing]
    cache_ref,     \* which object DatasetCatalog._cache holds for a category
    glcall         \* the get_listing call each thread is inside of, and the
                   \* object its last call returned

\* State of the catalog and of the FUSE layer.
fsvars == <<authenticated, custom_dirs, listings, time_now, open_fds, next_fh,
            fsop, fsret, nops, os_files, nio, service, searches, returned,
            objects, cache_ref, glcall, os_pos>>

vars == <<max_bytes, entry, tmp, locks, lockHolder, globalHolder, clock, pc,
          arg, err, sweep, ret, downloads, ncalls, called, failed, others,
          fsvars>>

NoEntry == [kind |-> "none", n |-> 0, mtime |-> 0]
NoTmp == [stage |-> "none", mtime |-> 0]
NoSweep == [left |-> {}, entries |-> <<>>, total |-> 0, idx |-> 0,
            before |-> <<>>, listed |-> {}]
NoRet == [k |-> "none", id |-> 0]

\* ------------------------------------------------------------------------
\* The local filesystem as the cache sees it
\* ------------------------------------------------------------------------
\* A canonical absolute path is the sequence of its component names; a
\* relative path such as a subpath is a sequence of components which may
\* hold "..", "." and "" (from a doubled slash).

\* self._root (already canonical)
CacheRoot == <<"cache">>

\* str(dataset_id)
IdStr(id) == CASE id = 1 -> "1" [] id = 2 -> "2" [] id = 12 -> "12"
               [] OTHER -> "?"

\* self._root / str(dataset_id)
_dataset_dir(id) == Append(CacheRoot, IdStr(id))

\* The characters of the names in use (a Python str is a character sequence).
Chars(s) ==
    CASE s = "cache" -> <<"c", "a", "c", "h", "e">>
      [] s = "etc" -> <<"e", "t", "c">>
      [] s = "passwd" -> <<"p", "a", "s", "s", "w", "d">>
      [] s = "1" -> <<"1">>
      [] s = "2" -> <<"2">>
      [] s = "12" -> <<"1", "2">>
      [] s = "f1" -> <<"f", "1">>
      [] s = "f2" -> <<"f", "2">>
      [] s = "d" -> <<"d">>
      [] s = "g" -> <<"g">>
      [] s = "lnk" -> <<"l", "n", "k">>
      [] s = "x" -> <<"x">>
      [] s = ".." -> <<".", ".">>
      [] s = "Original" -> <<"O", "r", "i", "g", "i", "n", "a", "l">>
      [] s = "v1" -> <<"v", "1">>
      [] s = "v2" -> <<"v", "2">>
      [] s = "v5" -> <<"v", "5">>
      [] s = "." -> <<".">>
      [] OTHER -> <<>>

\* Code points, for comparing strings.
Ord(c) ==
    CASE c = "." -> 46 [] c = "1" -> 49 [] c = "2" -> 50 [] c = "a" -> 97
      [] c = "5" -> 53
      [] c = "c" -> 99 [] c = "d" -> 100 [] c = "e" -> 101 [] c = "f" -> 102
      [] c = "g" -> 103 [] c = "h" -> 104 [] c = "k" -> 107 [] c = "l" -> 108
      [] c = "n" -> 110 [] c = "p" -> 112 [] c = "s" -> 115 [] c = "t" -> 116
      [] c = "w" -> 119 [] c = "x" -> 120 [] c = "O" -> 79 [] c = "i" -> 105
      [] c = "r" -> 114 [] c = "v" -> 118 [] OTHER -> 0

\* str(path) of an absolute path: "/" + "/".join(parts)
RECURSIVE PathStr(_)
PathStr(p) ==
    IF p = <<>> THEN <<>>
    ELSE <<"/">> \o Chars(p[1]) \o PathStr(Tail(p))

\* a.startswith(b) on character sequences
startswith(a, b) == Len(b) <= Len(a) /\ SubSeq(a, 1, Len(b)) = b

\* The unwrapped content of each dataset, as the units shutil.rmtree removes
\* (unit k is present while the entry still holds at least k units; a
\* subdirectory goes with its last file).  Dataset 12 carries a symbolic link
\* to a file outside the cache.
Content(id) ==
    CASE id = 1 ->
           {[path |-> <<"f1">>, kind |-> "file", unit |-> 1, target |-> <<>>],
            [path |-> <<"f2">>, kind |-> "file", unit |-> 2, target |-> <<>>],
            [path |-> <<"d">>, kind |-> "dir", unit |-> 3, target |-> <<>>],
            [path |-> <<"d", "g">>, kind |-> "file", unit |-> 3,
             target |-> <<>>]}
      [] id = 2 ->
           {[path |-> <<"f1">>, kind |-> "file", unit |-> 1, target |-> <<>>]}
      [] OTHER ->
           {[path |-> <<"f1">>, kind |-> "file", unit |-> 1, target |-> <<>>],
            [path |-> <<"lnk">>, kind |-> "link", unit |-> 2,
             target |-> <<"etc", "passwd">>]}

NoNode == [kind |-> "none", target |-> <<>>]

\* What lstat finds at a canonical absolute path.
Node(p) ==
    IF p = <<>> \/ p = CacheRoot \/ p = <<"etc">>
    THEN [kind |-> "dir", target |-> <<>>]
    ELSE IF p = <<"etc", "passwd">>
    THEN [kind |-> "file", target |-> <<>>]
    ELSE IF Len(p) >= 2 /\ p[1] = CacheRoot[1]
            /\ \E id \in Ids : IdStr(id) = p[2]
    THEN LET id == CHOOSE i \in Ids : IdStr(i) = p[2]
             rel == SubSeq(p, 3, Len(p))
         IN  IF rel = <<>>
             THEN [kind |-> entry[id].kind, target |-> <<>>]
             ELSE IF entry[id].kind = "dir"
                     /\ \E c \in Content(id) :
                            c.path = rel /\ c.unit <= entry[id].n
             THEN LET c == CHOOSE c \in Content(id) : c.path = rel
                  IN  [kind |-> c.kind, target |-> c.target]
             ELSE NoNode
    ELSE NoNode

\* Every name a directory of this filesystem can hold.
Names == {"cache", "etc", "passwd", "1", "2", "12", "f1", "f2", "d", "g", "lnk"}

\* Path.__truediv__: an absolute right operand (leading "") replaces the left
\* one; empty and "." components are dropped.
RECURSIVE DropEmpty(_)
DropEmpty(segs) ==
    IF segs = <<>> THEN <<>>
    ELSE IF segs[1] = "" \/ segs[1] = "." THEN DropEmpty(Tail(segs))
    ELSE <<segs[1]>> \o DropEmpty(Tail(segs))

JoinPath(base, segs) ==
    IF segs # <<>> /\ segs[1] = "" THEN DropEmpty(segs)
    ELSE base \o DropEmpty(segs)

\* Path.resolve() (os.path.realpath, non-strict): components are taken left
\* to right; ".." drops the last resolved component; a symbolic link is
\* replaced by its (canonical, absolute) target; missing components are kept.
RECURSIVE ResolveFrom(_, _)
ResolveFrom(acc, segs) ==
    IF segs = <<>> THEN acc
    ELSE IF segs[1] = ".."
    THEN ResolveFrom(IF acc = <<>> THEN <<>> ELSE SubSeq(acc, 1, Len(acc) - 1),
                     Tail(segs))
    ELSE LET np == Append(acc, segs[1]) IN
         ResolveFrom(IF Node(np).kind = "link" THEN Node(np).target ELSE np,
                     Tail(segs))

resolve(p) == ResolveFrom(<<>>, p)

None == <<"None">>

\* The path walk of the operating system (stat, listdir, open): every
\* component but the last must be there and be a directory, or a link to one;
\* ".." is the parent of the directory reached.  None if the walk fails.
RECURSIVE Walk(_, _)
Walk(acc, segs) ==
    IF segs = <<>> THEN acc
    ELSE IF Node(acc).kind # "dir" THEN None
    ELSE IF segs[1] = ".."
    THEN Walk(IF acc = <<>> THEN <<>> ELSE SubSeq(acc, 1, Len(acc) - 1),
              Tail(segs))
    ELSE LET np == Append(acc, segs[1]) IN
         Walk(IF Node(np).kind = "link" THEN Node(np).target ELSE np,
              Tail(segs))

\* os.stat(p)
stat(p) ==
    LET w == Walk(<<>>, p) IN IF w = None THEN NoNode ELSE Node(w)

\* Path.exists() / Path.is_dir() (both follow symbolic links)
exists(p) == stat(p).kind # "none"
is_dir(p) == stat(p).kind = "dir"

\* s < t for strings
RECURSIVE LexLess(_, _)
LexLess(a, b) ==
    IF b = <<>> THEN FALSE
    ELSE IF a = <<>> THEN TRUE
    ELSE IF Ord(a[1]) # Ord(b[1]) THEN Ord(a[1]) < Ord(b[1])
    ELSE LexLess(Tail(a), Tail(b))

\* sorted(names)
RECURSIVE SortNames(_)
SortNames(S) ==
    IF S = {} THEN <<>>
    ELSE LET m == CHOOSE x \in S :
                     \A y \in S \ {x} : LexLess(Chars(x), Chars(y))
         IN  <<m>> \o SortNames(S \ {m})

\* ------------------------------------------------------------------------
\* DownloadCache accessors
\* ------------------------------------------------------------------------
\* d.is_dir() and any(d.iterdir())
is_cached(id) == entry[id].kind = "dir" /\ entry[id].n > 0

\* _dir_size(d) or None (-1)
cached_size(id) == IF is_cached(id) THEN entry[id].n ELSE -1

\* The names of sorted(target.iterdir()), or [] if target is no directory.
list_entries(id, subpath) ==
    LET target == JoinPath(_dataset_dir(id), subpath) IN
    IF ~is_dir(target) THEN <<>>
    ELSE SortNames({x \in Names :
                        Node(Append(Walk(<<>>, target), x)).kind # "none"})

\* full = (ds_dir / subpath).resolve(); the prefix test on the two path
\* strings; full if it exists.
resolve_path(id, subpath) ==
    LET ds_dir == _dataset_dir(id)
        full == resolve(JoinPath(ds_dir, subpath))
    IN  IF ~startswith(PathStr(full), PathStr(resolve(ds_dir))) THEN None
        ELSE IF exists(full) THEN full ELSE None

\* ------------------------------------------------------------------------
\* DownloadCache.ensure_downloaded, step by step
\* ------------------------------------------------------------------------
RECURSIVE SumOver(_, _)
SumOver(f, S) ==
    IF S = {} THEN 0
    ELSE LET x == CHOOSE y \in S : TRUE IN f[x] + SumOver(f, S \ {x})

TotalCalls == SumOver(ncalls, Threads)

\* A caller enters ensure_downloaded(client, id).
Enter(t, id) ==
    /\ TotalCalls < MaxCalls
    /\ pc' = [pc EXCEPT ![t] = "lock_for"]
    /\ arg' = [arg EXCEPT ![t] = id]
    /\ err' = [err EXCEPT ![t] = "none"]
    /\ ret' = [ret EXCEPT ![t] = NoRet]
    /\ ncalls' = [ncalls EXCEPT ![t] = @ + 1]
    /\ called' = called \cup {id}
    /\ UNCHANGED <<max_bytes, entry, tmp, locks, lockHolder, globalHolder,
                   clock, sweep, downloads, failed, others>>

\* ensure_downloaded(client, id) called on the cache directly.
Call(t, id) ==
    /\ pc[t] = "idle"
    /\ fsop[t].op = "none"
    /\ Enter(t, id)
    /\ UNCHANGED fsvars

\* _lock_for as it would be if the coarse lock were kept until the
\* per-dataset lock has been entered.
LockFor_holding(t) ==
    /\ pc[t] = "lock_for"
    /\ globalHolder = NoThread
    /\ globalHolder' = t
    /\ locks' = locks \cup {arg[t]}
    /\ pc' = [pc EXCEPT ![t] = "acquire"]
    /\ UNCHANGED <<fsvars, others,
                   max_bytes, entry, tmp, lockHolder, clock, arg,
                   err, sweep, ret, downloads, ncalls, called, failed>>

\* _lock_for: under the coarse lock, create the per-dataset lock on first touch.
LockFor(t) ==
    /\ pc[t] = "lock_for"
    /\ globalHolder = NoThread
    /\ locks' = locks \cup {arg[t]}
    /\ pc' = [pc EXCEPT ![t] = "acquire"]
    /\ UNCHANGED <<fsvars, others,
                   max_bytes, entry, tmp, lockHolder, globalHolder, clock, arg,
                   err, sweep, ret, downloads, ncalls, called, failed>>

\* with lock: (entry), as it would be if the lock were not waited for.
Acquire_no_wait(t) ==
    /\ pc[t] = "acquire"
    /\ arg[t] \in locks
    /\ lockHolder' = [lockHolder EXCEPT ![arg[t]] = t]
    /\ pc' = [pc EXCEPT ![t] = "check"]
    /\ UNCHANGED <<fsvars, others,
                   max_bytes, entry, tmp, locks, globalHolder, clock, arg, err,
                   sweep, ret, downloads, ncalls, called, failed>>

\* with lock: (entry)
Acquire(t) ==
    /\ pc[t] = "acquire"
    /\ arg[t] \in locks
    /\ lockHolder[arg[t]] = NoThread
    /\ lockHolder' = [lockHolder EXCEPT ![arg[t]] = t]
    /\ pc' = [pc EXCEPT ![t] = "check"]
    /\ UNCHANGED <<fsvars, others,
                   max_bytes, entry, tmp, locks, globalHolder, clock, arg, err,
                   sweep, ret, downloads, ncalls, called, failed>>

\* if ds_dir.is_dir() and any(ds_dir.iterdir()):
Check(t) ==
    /\ pc[t] = "check"
    /\ pc' = [pc EXCEPT ![t] = IF is_cached(arg[t]) THEN "touch" ELSE "cleanup"]
    /\ UNCHANGED <<fsvars, others,
                   max_bytes, entry, tmp, locks, lockHolder, globalHolder,
                   clock, arg, err, sweep, ret, downloads, ncalls, called,
                   failed>>

\* Path.touch(): os.utime if the path exists, else os.open(O_CREAT) which
\* leaves an empty regular file.
Touched(e, now) ==
    IF e.kind = "none" THEN [kind |-> "file", n |-> 0, mtime |-> now]
    ELSE [e EXCEPT !.mtime = now]

\* The cache-hit branch: ds_dir.touch(); return ds_dir (leaving the with block).
TouchReturn(t) ==
    /\ pc[t] = "touch"
    /\ clock' = clock + 1
    /\ entry' = [entry EXCEPT ![arg[t]] = Touched(@, clock + 1)]
    /\ lockHolder' = [lockHolder EXCEPT ![arg[t]] = NoThread]
    /\ pc' = [pc EXCEPT ![t] = "idle"]
    /\ ret' = [ret EXCEPT ![t] = [k |-> "path", id |-> arg[t]]]
    /\ UNCHANGED <<fsvars, others,
                   max_bytes, tmp, locks, globalHolder, arg, err, sweep,
                   downloads, ncalls, called, failed>>

\* if ds_dir.exists():
CleanupExists(t) ==
    /\ pc[t] = "cleanup"
    /\ pc' = [pc EXCEPT ![t] = IF entry[arg[t]].kind = "none" THEN "mkdtemp"
                                ELSE "cleanup_rm"]
    /\ UNCHANGED <<fsvars, others,
                   max_bytes, entry, tmp, locks, lockHolder, globalHolder,
                   clock, arg, err, sweep, ret, downloads, ncalls, called,
                   failed>>

\* shutil.rmtree(ds_dir) of the stale directory: one file per step (the
\* unlink sets the directory's mtime to the present time), then the
\* directory.  On a regular file it raises; on a path that vanished meanwhile
\* it raises or (newer runtimes) passes.
CleanupRmtree(t) ==
    /\ pc[t] = "cleanup_rm"
    /\ LET e == entry[arg[t]] IN
       \/ /\ e.kind = "dir" /\ e.n > 0
          /\ entry' = [entry EXCEPT ![arg[t]].n = @ - 1,
                                    ![arg[t]].mtime = clock]
          /\ UNCHANGED <<pc, err>>
       \/ /\ e.kind = "dir" /\ e.n = 0
          /\ entry' = [entry EXCEPT ![arg[t]] = NoEntry]
          /\ pc' = [pc EXCEPT ![t] = "mkdtemp"]
          /\ UNCHANGED err
       \/ /\ e.kind = "file"
          /\ pc' = [pc EXCEPT ![t] = "raise"]
          /\ err' = [err EXCEPT ![t] = "rmtree"]
          /\ UNCHANGED entry
       \/ /\ e.kind = "none"
          /\ \/ /\ pc' = [pc EXCEPT ![t] = "raise"]
                /\ err' = [err EXCEPT ![t] = "rmtree"]
             \/ /\ pc' = [pc EXCEPT ![t] = "mkdtemp"]
                /\ UNCHANGED err
          /\ UNCHANGED entry
    /\ UNCHANGED <<fsvars, others,
                   max_bytes, tmp, locks, lockHolder, globalHolder, clock, arg,
                   sweep, ret, downloads, ncalls, called, failed>>

\* tmp_dir = Path(tempfile.mkdtemp(prefix=f".dl-{dataset_id}-", dir=self._root))
Mkdtemp(t) ==
    /\ pc[t] = "mkdtemp"
    /\ tmp' = [tmp EXCEPT ![t] = [stage |-> "empty", mtime |-> clock]]
    /\ pc' = [pc EXCEPT ![t] = "download"]
    /\ UNCHANGED <<fsvars, others,
                   max_bytes, entry, locks, lockHolder, globalHolder, clock,
                   arg, err, sweep, ret, downloads, ncalls, called, failed>>

\* client.datasets.download([dataset_id], tmp_dir) is invoked ...
DownloadStart(t) ==
    /\ pc[t] = "download"
    /\ downloads' = [downloads EXCEPT ![arg[t]] = @ + 1]
    /\ pc' = [pc EXCEPT ![t] = "downloading"]
    /\ UNCHANGED <<fsvars, others,
                   max_bytes, entry, tmp, locks, lockHolder, globalHolder,
                   clock, arg, err, sweep, ret, ncalls, called, failed>>

\* ... and returns with the raw layout in place, or fails leaving the staging
\* directory empty or partly populated.
DownloadEnd(t) ==
    /\ pc[t] = "downloading"
    /\ \/ /\ tmp' = [tmp EXCEPT ![t].stage = "raw"]
          /\ pc' = [pc EXCEPT ![t] = "unwrap"]
          /\ UNCHANGED <<err, failed>>
       \/ /\ \E st \in {"empty", "partial"} :
                 tmp' = [tmp EXCEPT ![t].stage = st]
          /\ pc' = [pc EXCEPT ![t] = "except"]
          /\ err' = [err EXCEPT ![t] = "download"]
          /\ failed' = failed \cup {arg[t]}
    /\ UNCHANGED <<fsvars, others,
                   max_bytes, entry, locks, lockHolder, globalHolder, clock,
                   arg, sweep, ret, downloads, ncalls, called>>

\* self._unwrap(tmp_dir): flattens the raw layout (the last change of the
\* staging directory's own mtime), or fails half-way.
Unwrap(t) ==
    /\ pc[t] = "unwrap"
    /\ \/ /\ tmp' = [tmp EXCEPT ![t] = [stage |-> "flat", mtime |-> clock + 1]]
          /\ clock' = clock + 1
          /\ pc' = [pc EXCEPT ![t] = "rename"]
          /\ UNCHANGED <<err, failed>>
       \/ /\ tmp' = [tmp EXCEPT ![t].stage = "partial"]
          /\ pc' = [pc EXCEPT ![t] = "except"]
          /\ err' = [err EXCEPT ![t] = "unwrap"]
          /\ failed' = failed \cup {arg[t]}
          /\ UNCHANGED clock
    /\ UNCHANGED <<fsvars, others,
                   max_bytes, entry, locks, lockHolder, globalHolder, arg,
                   sweep, ret, downloads, ncalls, called>>

\* tmp_dir.rename(ds_dir): rename(2) replaces a missing or empty directory and
\* fails on a regular file or a non-empty directory.
Rename(t) ==
    /\ pc[t] = "rename"
    /\ LET e == entry[arg[t]] IN
       IF e.kind = "none" \/ (e.kind = "dir" /\ e.n = 0)
       THEN /\ entry' = [entry EXCEPT ![arg[t]] =
                           [kind |-> "dir", n |-> DatasetSize(arg[t]),
                            mtime |-> tmp[t].mtime]]
            /\ tmp' = [tmp EXCEPT ![t] = NoTmp]
            /\ pc' = [pc EXCEPT ![t] = "release"]
            /\ UNCHANGED err
       ELSE /\ pc' = [pc EXCEPT ![t] = "except"]
            /\ err' = [err EXCEPT ![t] = "rename"]
            /\ UNCHANGED <<entry, tmp>>
    /\ UNCHANGED <<fsvars, others,
                   max_bytes, locks, lockHolder, globalHolder, clock, arg,
                   sweep, ret, downloads, ncalls, called, failed>>

\* (mutation of ExceptCleanup: the staging directory is left behind)
ExceptCleanup_keeps_tmp(t) ==
    /\ pc[t] = "except"
    /\ pc' = [pc EXCEPT ![t] = "raise"]
    /\ UNCHANGED <<fsvars, others,
                   max_bytes, entry, tmp, locks, lockHolder, globalHolder,
                   clock, arg, err, sweep, ret, downloads, ncalls, called,
                   failed>>

\* except Exception: if tmp_dir.exists(): shutil.rmtree(tmp_dir)
ExceptCleanup(t) ==
    /\ pc[t] = "except"
    /\ tmp' = [tmp EXCEPT ![t] = NoTmp]
    /\ pc' = [pc EXCEPT ![t] = "raise"]
    /\ UNCHANGED <<fsvars, others,
                   max_bytes, entry, locks, lockHolder, globalHolder, clock,
                   arg, err, sweep, ret, downloads, ncalls, called, failed>>

\* raise: the exception leaves the with block (releasing the per-dataset lock)
\* and reaches the caller.
Raise(t) ==
    /\ pc[t] = "raise"
    /\ lockHolder' = [lockHolder EXCEPT ![arg[t]] = NoThread]
    /\ pc' = [pc EXCEPT ![t] = "idle"]
    /\ ret' = [ret EXCEPT ![t] = [k |-> "raised", id |-> arg[t]]]
    /\ UNCHANGED <<fsvars, others,
                   max_bytes, entry, tmp, locks, globalHolder, clock, arg, err,
                   sweep, downloads, ncalls, called, failed>>

\* The end of the with block as it would be if the sweep were called inside it.
Release_keeps_lock(t) ==
    /\ pc[t] = "release"
    /\ pc' = [pc EXCEPT ![t] = "evict"]
    /\ UNCHANGED <<fsvars, others,
                   max_bytes, entry, tmp, locks, lockHolder, globalHolder,
                   clock, arg, err, sweep, ret, downloads, ncalls, called,
                   failed>>

\* The with block ends after a successful install.
Release(t) ==
    /\ pc[t] = "release"
    /\ lockHolder' = [lockHolder EXCEPT ![arg[t]] = NoThread]
    /\ pc' = [pc EXCEPT ![t] = "evict"]
    /\ UNCHANGED <<fsvars, others,
                   max_bytes, entry, tmp, locks, globalHolder, clock, arg, err,
                   sweep, ret, downloads, ncalls, called, failed>>

\* ------------------------------------------------------------------------
\* DownloadCache._evict_if_needed, step by step
\* ------------------------------------------------------------------------
\* entries.sort(key=lambda e: e[0]): a stable sort by mtime.
RECURSIVE InsertByMtime(_, _)
InsertByMtime(s, x) ==
    IF s = <<>> THEN <<x>>
    ELSE IF s[Len(s)].mtime <= x.mtime THEN Append(s, x)
    ELSE Append(InsertByMtime(SubSeq(s, 1, Len(s) - 1), x), s[Len(s)])

\* (mutation of SortByMtime: the entries stay in directory order)
SortByMtime_unsorted(s) == s

RECURSIVE SortByMtime(_)
SortByMtime(s) ==
    IF s = <<>> THEN <<>>
    ELSE InsertByMtime(SortByMtime(SubSeq(s, 1, Len(s) - 1)), s[Len(s)])

\* sum(size for _, size, _ in entries)
RECURSIVE SumSizes(_)
SumSizes(s) == IF s = <<>> THEN 0 ELSE s[1].size + SumSizes(Tail(s))

\* The random part of the name tempfile.mkdtemp gives a staging directory.
Suffix(t) == IF t = 1 THEN <<"a">> ELSE <<"b">>

\* prefix=f".dl-{dataset_id}-" and the random part: the name of the staging
\* directory of thread t.
StagingName(t) ==
    <<".", "d", "l", "-">> \o Chars(IdStr(arg[t])) \o <<"-">> \o Suffix(t)

\* child.name of <root>/<id>
EntryName(id) == Chars(IdStr(id))

\* The names self._root.iterdir() yields.
RootChildren ==
    {EntryName(id) : id \in {i \in Ids : entry[i].kind # "none"}}
        \cup {StagingName(t) : t \in {u \in Threads : tmp[u] # NoTmp}}
        \cup DOMAIN others

\* child.is_dir()
ChildIsDir(name) ==
    \/ \E id \in Ids : EntryName(id) = name /\ entry[id].kind = "dir"
    \/ \E t \in Threads : tmp[t] # NoTmp /\ StagingName(t) = name
    \/ name \in DOMAIN others /\ others[name] = "dir"

Digits == {"0", "1", "2", "3", "4", "5", "6", "7", "8", "9"}

\* str.strip() of blanks, left and right
RECURSIVE lstrip(_)
lstrip(s) == IF s # <<>> /\ s[1] = " " THEN lstrip(Tail(s)) ELSE s

RECURSIVE rstrip(_)
rstrip(s) ==
    IF s # <<>> /\ s[Len(s)] = " " THEN rstrip(SubSeq(s, 1, Len(s) - 1))
    ELSE s

\* (mutation of IsInt: every name is taken for a dataset identifier)
IsInt_any(name) == TRUE

\* int(child.name) raises no ValueError: blanks around, an optional sign,
\* then decimal digits, with single underscores between digits at most.
IsInt(name) ==
    LET s == rstrip(lstrip(name))
        b == IF s # <<>> /\ s[1] \in {"+", "-"} THEN Tail(s) ELSE s
    IN  /\ b # <<>>
        /\ b[1] \in Digits
        /\ b[Len(b)] \in Digits
        /\ \A i \in 1..Len(b) :
              \/ b[i] \in Digits
              \/ b[i] = "_" /\ b[i - 1] \in Digits /\ b[i + 1] \in Digits

\* The dataset whose directory carries this name (0: none does).
IdOf(name) ==
    IF \E id \in Ids : EntryName(id) = name
    THEN CHOOSE id \in Ids : EntryName(id) = name
    ELSE 0

\* The files below a staging directory, by the stage of its download.
StagingSize(t) ==
    CASE tmp[t].stage = "raw" -> DatasetSize(arg[t]) + 1
      [] tmp[t].stage = "flat" -> DatasetSize(arg[t])
      [] tmp[t].stage = "partial" -> 1
      [] OTHER -> 0

\* self._dir_size(child)
ChildSize(name) ==
    IF IdOf(name) # 0 THEN entry[IdOf(name)].n
    ELSE IF \E t \in Threads : tmp[t] # NoTmp /\ StagingName(t) = name
    THEN StagingSize(CHOOSE t \in Threads :
                         tmp[t] # NoTmp /\ StagingName(t) = name)
    ELSE 0

\* child.stat().st_mtime
ChildMtime(name) ==
    IF IdOf(name) # 0 THEN entry[IdOf(name)].mtime
    ELSE IF \E t \in Threads : tmp[t] # NoTmp /\ StagingName(t) = name
    THEN tmp[CHOOSE t \in Threads :
                 tmp[t] # NoTmp /\ StagingName(t) = name].mtime
    ELSE 0

\* with self._global_lock: the sweep starts; root.iterdir() reads the names
\* under the root (os.listdir) once.  (before and listed remember the disk
\* as the sweep found it, for stating what the sweep did.)
EvictAcquire(t) ==
    /\ pc[t] = "evict"
    /\ globalHolder = NoThread
    /\ globalHolder' = t
    /\ sweep' = [sweep EXCEPT ![t] =
                    [left |-> RootChildren,
                     entries |-> <<>>, total |-> 0, idx |-> 0,
                     before |-> entry, listed |-> RootChildren]]
    /\ pc' = [pc EXCEPT ![t] = "scan"]
    /\ UNCHANGED <<fsvars, others,
                   max_bytes, entry, tmp, locks, lockHolder, clock, arg, err,
                   ret, downloads, ncalls, called, failed>>

\* One iteration of the collecting loop: a child that is a directory and
\* whose name int() accepts contributes (mtime, size, path); every other
\* child is skipped.
ScanChild(t) ==
    /\ pc[t] = "scan"
    /\ \E name \in sweep[t].left :
          sweep' = [sweep EXCEPT ![t].left = @ \ {name},
                                 ![t].entries =
                                     IF ChildIsDir(name) /\ IsInt(name)
                                     THEN Append(@, [mtime |-> ChildMtime(name),
                                                     size |-> ChildSize(name),
                                                     id |-> IdOf(name),
                                                     name |-> name])
                                     ELSE @]
    /\ UNCHANGED <<fsvars, others,
                   max_bytes, entry, tmp, locks, lockHolder, globalHolder,
                   clock, pc, arg, err, ret, downloads, ncalls, called, failed>>

\* The sweep ends: the coarse lock is released and ensure_downloaded returns
\* ds_dir.
SweepReturn(t) ==
    /\ globalHolder' = NoThread
    /\ pc' = [pc EXCEPT ![t] = "idle"]
    /\ sweep' = [sweep EXCEPT ![t] = NoSweep]
    /\ ret' = [ret EXCEPT ![t] = [k |-> "path", id |-> arg[t]]]

\* An exception of shutil.rmtree leaves the sweep and ensure_downloaded.
SweepRaise(t) ==
    /\ globalHolder' = NoThread
    /\ pc' = [pc EXCEPT ![t] = "idle"]
    /\ sweep' = [sweep EXCEPT ![t] = NoSweep]
    /\ err' = [err EXCEPT ![t] = "evict"]
    /\ ret' = [ret EXCEPT ![t] = [k |-> "raised", id |-> arg[t]]]

\* total = sum(...); if total <= self._max_bytes: return; entries.sort(...)
ScanDone(t) ==
    /\ pc[t] = "scan"
    /\ sweep[t].left = {}
    /\ LET total == SumSizes(sweep[t].entries) IN
       IF total <= max_bytes
       THEN SweepReturn(t) /\ UNCHANGED err
       ELSE /\ sweep' = [sweep EXCEPT ![t].entries = SortByMtime(@),
                                      ![t].total = total,
                                      ![t].idx = 1]
            /\ pc' = [pc EXCEPT ![t] = "evict_loop"]
            /\ UNCHANGED <<globalHolder, ret, err>>
    /\ UNCHANGED <<fsvars, others,
                   max_bytes, entry, tmp, locks, lockHolder, clock, arg,
                   downloads, ncalls, called, failed>>

\* for mtime, size, path in entries: if total <= self._max_bytes: break
EvictNext(t) ==
    /\ pc[t] = "evict_loop"
    /\ IF sweep[t].idx > Len(sweep[t].entries) \/ sweep[t].total <= max_bytes
       THEN SweepReturn(t) /\ UNCHANGED err
       ELSE /\ pc' = [pc EXCEPT ![t] = "rmtree"]
            /\ UNCHANGED <<globalHolder, sweep, ret, err>>
    /\ UNCHANGED <<fsvars, others,
                   max_bytes, entry, tmp, locks, lockHolder, clock, arg,
                   downloads, ncalls, called, failed>>

\* total -= size, and on to the next entry.
SweepAdvance(t) ==
    /\ sweep' = [sweep EXCEPT
                     ![t].total = @ - sweep[t].entries[sweep[t].idx].size,
                     ![t].idx = @ + 1]
    /\ pc' = [pc EXCEPT ![t] = "evict_loop"]
    /\ UNCHANGED <<globalHolder, ret, err>>

\* shutil.rmtree(path) of a child that is no dataset directory: the staging
\* directory or the foreign child of that name goes, with what it holds.
RmtreeOther(t, name) ==
    /\ tmp' = [u \in Threads |->
                  IF tmp[u] # NoTmp /\ StagingName(u) = name THEN NoTmp
                  ELSE tmp[u]]
    /\ others' = [n \in DOMAIN others \ {name} |-> others[n]]
    /\ SweepAdvance(t)
    /\ UNCHANGED entry

\* shutil.rmtree(path), first part: the files of the directory are unlinked
\* one at a time, and each unlink sets the directory's mtime to the present
\* time.
RmtreeFiles(t) ==
    /\ pc[t] = "rmtree"
    /\ LET r == sweep[t].entries[sweep[t].idx]
           id == r.id
           e == IF id = 0 THEN NoEntry ELSE entry[id] IN
       \/ /\ id = 0
          /\ RmtreeOther(t, r.name)
       \/ /\ id # 0
          /\ UNCHANGED <<tmp, others>>
          /\ \/ /\ e.kind = "dir" /\ e.n > 0
                /\ entry' = [entry EXCEPT ![id].n = @ - 1,
                                          ![id].mtime = clock]
                /\ pc' = [pc EXCEPT ![t] = IF e.n = 1 THEN "rm_dir"
                                           ELSE "rmtree"]
                /\ UNCHANGED <<globalHolder, sweep, ret, err>>
             \/ /\ e.kind = "dir" /\ e.n = 0
                /\ pc' = [pc EXCEPT ![t] = "rm_dir"]
                /\ UNCHANGED <<entry, globalHolder, sweep, ret, err>>
             \/ /\ e.kind = "file"
                /\ SweepRaise(t)
                /\ UNCHANGED entry
             \/ /\ e.kind = "none"
                /\ SweepRaise(t) \/ SweepAdvance(t)
                /\ UNCHANGED entry
    /\ UNCHANGED <<fsvars,
                   max_bytes, locks, lockHolder, clock, arg, downloads,
                   ncalls, called, failed>>

\* shutil.rmtree(path), last part: os.rmdir(path).  It fails on a directory
\* that has been replaced by a populated one, and on a path that vanished it
\* raises or (newer runtimes) passes.
RmtreeDir(t) ==
    /\ pc[t] = "rm_dir"
    /\ LET id == sweep[t].entries[sweep[t].idx].id
           e == entry[id] IN
       \/ /\ e.kind = "dir" /\ e.n = 0
          /\ entry' = [entry EXCEPT ![id] = NoEntry]
          /\ SweepAdvance(t)
       \/ /\ (e.kind = "dir" /\ e.n > 0) \/ e.kind = "file"
          /\ SweepRaise(t)
          /\ UNCHANGED entry
       \/ /\ e.kind = "none"
          /\ SweepRaise(t) \/ SweepAdvance(t)
          /\ UNCHANGED entry
    /\ UNCHANGED <<fsvars, others,
                   max_bytes, tmp, locks, lockHolder, clock, arg, downloads,
                   ncalls, called, failed>>

\* ------------------------------------------------------------------------
\* utils.py: folder names
\* ------------------------------------------------------------------------
\* Python's None where a str is expected.
NoStr == "<None>"

\* True if x is an element of the list s.
InSeq(x, s) == \E i \in 1..Len(s) : s[i] = x

\* _UNSAFE_RE.sub("_", name).strip(), on the names the service holds.
_sanitize(name) ==
    CASE name = "x/y" -> "x_y"
      [] OTHER -> name

\* datetime.fromisoformat(...).strftime("%Y-%m-%d %H:%M"), or None.
_format_timestamp(iso_str) ==
    CASE iso_str = "2024-06-15T10:30:00Z" -> "2024-06-15 10:30"
      [] iso_str = "2024-06-15T10:30:59Z" -> "2024-06-15 10:30"
      [] OTHER -> NoStr

\* The epoch seconds of an ISO-8601 string; 0 if None or unparseable.
parse_iso_timestamp(iso_str) ==
    CASE iso_str = "2024-06-15T10:30:00Z" -> 1718447400
      [] iso_str = "2024-06-15T10:30:59Z" -> 1718447459
      [] OTHER -> 0

\* Dataset ids -> unique display names (the ids of datasets are distinct).
deduplicate_names(datasets) ==
    LET idx == 1..Len(datasets)
        raw_name(i) ==
            IF datasets[i].dataset_name = NoStr \/ datasets[i].dataset_name = ""
            THEN "dataset_" \o ToString(datasets[i].id)
            ELSE datasets[i].dataset_name
        safe(i) == _sanitize(raw_name(i))
        group(i) == {j \in idx : safe(j) = safe(i)}
        display(i) ==
            LET ts_str == _format_timestamp(datasets[i].experiment_start_time)
            IN  IF ts_str # NoStr THEN safe(i) \o " (" \o ts_str \o ")"
                ELSE safe(i)
        sub_group(i) == {j \in group(i) : display(j) = display(i)}
        name(i) ==
            IF Cardinality(group(i)) = 1 THEN safe(i)
            ELSE IF Cardinality(sub_group(i)) = 1 THEN display(i)
            ELSE display(i) \o " [" \o ToString(datasets[i].id) \o "]"
    IN  [id \in {datasets[i].id : i \in idx} |->
            name(CHOOSE i \in idx : datasets[i].id = id)]

\* ------------------------------------------------------------------------
\* catalog.py: categories and listings
\* ------------------------------------------------------------------------
\* class Category, by value and in declaration order.
Category ==
    <<"Public Datasets", "Published Datasets", "Lab Group Datasets",
      "My Datasets">>
PUBLIC == Category[1]
PUBLISHED == Category[2]

\* The custom directory the mount may be configured with (its name is not
\* the value of a built-in category).
CustomName == "Mine"

\* Every category key.
CategoryKeys == {Category[i] : i \in 1..Len(Category)} \cup {CustomName}

\* A dataset record of the service.
Dataset(id, name, start, versions) ==
    [id |-> id, dataset_name |-> name, experiment_start_time |-> start,
     versions |-> versions]

\* What the service holds while the filesystem is mounted, by the category
\* whose search finds it.  Dataset 2 has the published version 1, which is
\* dataset 12.
RemoteDatasets(category) ==
    CASE category = PUBLIC ->
           <<Dataset(1, "a", "2024-06-15T10:30:00Z", <<>>),
             Dataset(12, "b", NoStr, <<>>)>>
      [] category = PUBLISHED ->
           <<Dataset(2, "p", "2024-06-15T10:30:00Z",
                     <<[version |-> 1, dataset |-> 12]>>)>>
      [] category = Category[3] ->
           <<Dataset(2, "x/y", "garbage", <<>>)>>
      [] category = CustomName ->
           <<Dataset(1, "a", NoStr, <<>>)>>
      [] OTHER -> <<>>

\* _build_config(category) is not None: a built-in category or a registered
\* custom directory.
HasConfig(category) == InSeq(category, Category) \/ InSeq(category, custom_dirs)

\* list(self._fetch(category)): the answer of
\* self._client.datasets.search(config), nothing without a config.
_fetch(category) == IF HasConfig(category) THEN service[category] ELSE <<>>

\* DatasetCatalog._ttl, in the units of time_now.
_ttl == 2

\* No get_listing call in progress, and no object returned so far.
NoCall == [pc |-> "idle", category |-> NoStr, datasets |-> <<>>, ref |-> 0]

\* No snapshot stored for a category.
NoListing ==
    [datasets |-> <<>>, name_map |-> <<>>, folder_names |-> <<>>,
     folder_lookup |-> <<>>, timestamps |-> <<>>, version_map |-> <<>>,
     fetched_at |-> -1]

\* A catalog that shows the four built-in categories to everybody.
available_categories_all == Category \o custom_dirs

\* The categories visible in the current auth state, then the custom ones.
available_categories ==
    (IF authenticated THEN Category ELSE SubSeq(Category, 1, 2)) \o custom_dirs

\* category.value, or the name of a custom directory.
category_display_name(category) == category

\* The last dataset of the list that was given the folder name n.
LastNamed(datasets, name_map, n) ==
    LET i == CHOOSE i \in 1..Len(datasets) :
                 /\ name_map[datasets[i].id] = n
                 /\ \A j \in (i + 1)..Len(datasets) :
                        name_map[datasets[j].id] # n
    IN  datasets[i]

\* The folder names in the order the dict folder_lookup holds its keys.
RECURSIVE KeysInOrder(_, _, _)
KeysInOrder(datasets, name_map, seen) ==
    IF datasets = <<>> THEN <<>>
    ELSE LET n == name_map[datasets[1].id] IN
         IF n \in seen THEN KeysInOrder(Tail(datasets), name_map, seen)
         ELSE <<n>> \o KeysInOrder(Tail(datasets), name_map, seen \cup {n})

\* A version map whose every label leads to the base dataset.
Versions_own_id(ds) ==
    [l \in {"Original"} \cup {"v" \o ToString(ds.versions[i].version) :
                                  i \in 1..Len(ds.versions)} |-> ds.id]

\* {"Original": ds.id, "v<n>": v.dataset.id, ...}
Versions(ds) ==
    LET labels == {"Original"} \cup
                  {"v" \o ToString(ds.versions[i].version) :
                       i \in 1..Len(ds.versions)}
    IN  [l \in labels |->
            IF \E i \in 1..Len(ds.versions) :
                   "v" \o ToString(ds.versions[i].version) = l
            THEN LET i == CHOOSE i \in 1..Len(ds.versions) :
                     /\ "v" \o ToString(ds.versions[i].version) = l
                     /\ \A j \in (i + 1)..Len(ds.versions) :
                            "v" \o ToString(ds.versions[j].version) # l
                 IN  ds.versions[i].dataset
            ELSE ds.id]

\* The snapshot get_listing builds from the datasets its search has answered.
BuildListingOf(category, datasets) ==
    LET name_map == deduplicate_names(datasets)
        names == KeysInOrder(datasets, name_map, {})
        keys == {names[i] : i \in 1..Len(names)}
    IN  [datasets |-> datasets,
         name_map |-> name_map,
         folder_names |-> names,
         folder_lookup |-> [n \in keys |-> LastNamed(datasets, name_map, n)],
         timestamps |-> [n \in keys |-> parse_iso_timestamp(
                            LastNamed(datasets, name_map, n)
                                .experiment_start_time)],
         version_map |->
             IF category = PUBLISHED
             THEN [n \in keys |-> Versions(LastNamed(datasets, name_map, n))]
             ELSE <<>>,
         fetched_at |-> time_now]

\* The snapshot get_listing builds from a fresh search.
BuildListing(category) == BuildListingOf(category, _fetch(category))

\* A freshness test that still serves a snapshot whose age is the TTL.
IsFresh_inclusive(category) ==
    /\ listings[category].fetched_at >= 0
    /\ time_now - listings[category].fetched_at <= _ttl

\* A stored snapshot younger than the TTL is served as it is.
IsFresh(category) ==
    /\ listings[category].fetched_at >= 0
    /\ time_now - listings[category].fetched_at < _ttl

\* DatasetCatalog.get_listing: the snapshot it returns ...
get_listing(category) ==
    IF IsFresh(category) THEN listings[category] ELSE BuildListing(category)

\* ... and the snapshots the catalog holds afterwards.
StoreListing(category) == [listings EXCEPT ![category] = get_listing(category)]

\* ... and the searches invoked so far: one more if get_listing refreshes.
Searched(category) ==
    IF ~IsFresh(category) /\ HasConfig(category)
    THEN [searches EXCEPT ![category] = @ + 1]
    ELSE searches

\* ------------------------------------------------------------------------
\* fs.py: paths and results of the FUSE operations
\* ------------------------------------------------------------------------
\* A FUSE path is given by its components, path.strip("/").split("/");
\* the root "/" has none.

\* NMRHubFS._mount_time
_mount_time == 7

\* NMRHubFS._SENTINEL
_SENTINEL == "<sentinel>"

_resolve_category(name) ==
    IF InSeq(name, Category) THEN name
    ELSE IF InSeq(name, available_categories) THEN name
    ELSE NoStr

\* (category, dataset_name, subpath); subpath stays a component sequence.
_parse_path(parts) ==
    [category |->
         IF Len(parts) >= 1
         THEN IF _resolve_category(parts[1]) = NoStr THEN _SENTINEL
              ELSE _resolve_category(parts[1])
         ELSE NoStr,
     dataset_name |-> IF Len(parts) >= 2 THEN parts[2] ELSE NoStr,
     subpath |-> IF Len(parts) >= 3 THEN SubSeq(parts, 3, Len(parts))
                 ELSE None]

\* os.path.getmtime(real): the cache tracks the time of entry directories.
getmtime(real) ==
    IF \E id \in Ids : real = _dataset_dir(id)
    THEN entry[CHOOSE id \in Ids : real = _dataset_dir(id)].mtime
    ELSE 0

NoStat == [mode |-> "none", mtime |-> 0]

\* t = mtime or self._mount_time
_dir_stat(mtime) ==
    [mode |-> "dir", mtime |-> IF mtime = 0 THEN _mount_time ELSE mtime]

_dir_stat_from_path(real) == [mode |-> "dir", mtime |-> getmtime(real)]

_file_stat_from_path(real) == [mode |-> "file", mtime |-> getmtime(real)]

\* No FUSE operation in progress.
NoOp ==
    [op |-> "none", parts |-> <<>>, id |-> 0, inner |-> <<>>, real |-> None,
     os_fd |-> 0, fh |-> 0, size |-> 0, offset |-> 0]

\* What an operation hands back to the kernel: k is "ok" or the error; a
\* stat, the listed names, the real path served and the handle, as far as the
\* operation has them.
FsRet(op, parts, k) ==
    [t |-> NoThread, op |-> op, parts |-> parts, k |-> k, st |-> NoStat,
     names |-> <<>>, id |-> 0, real |-> None, fh |-> 0, data |-> <<>>]

NoFsRet == FsRet("none", <<>>, "none")

\* The operation goes on to self._download(id) and then serves inner.
Download(id, inner) == [k |-> "download", id |-> id, inner |-> inner]

\* ------------------------------------------------------------------------
\* NMRHubFS.getattr
\* ------------------------------------------------------------------------
\* stat of a real path of the cache
StatReal(parts, id, real) ==
    IF real = None THEN [FsRet("getattr", parts, "ENOENT") EXCEPT !.id = id]
    ELSE [FsRet("getattr", parts, "ok") EXCEPT
              !.id = id,
              !.real = real,
              !.st = IF is_dir(real) THEN _dir_stat_from_path(real)
                     ELSE _file_stat_from_path(real)]

\* getattr below a valid category, given the listing of that category.
getattr_listed(parts, listing) ==
    LET p == _parse_path(parts)
        mtime == IF p.dataset_name \in DOMAIN listing.timestamps
                 THEN listing.timestamps[p.dataset_name] ELSE _mount_time
    IN
    IF p.dataset_name \notin DOMAIN listing.folder_lookup
    THEN FsRet("getattr", parts, "ENOENT")
    ELSE IF p.subpath = None
    THEN [FsRet("getattr", parts, "ok") EXCEPT !.st = _dir_stat(mtime)]
    ELSE IF p.category = PUBLISHED
    THEN LET version_label == p.subpath[1]
             inner_path == IF Len(p.subpath) > 1 THEN Tail(p.subpath)
                           ELSE None
             versions == IF p.dataset_name \in DOMAIN listing.version_map
                         THEN listing.version_map[p.dataset_name] ELSE <<>>
         IN  IF version_label \notin DOMAIN versions
             THEN FsRet("getattr", parts, "ENOENT")
             ELSE IF inner_path = None
             THEN [FsRet("getattr", parts, "ok") EXCEPT
                       !.st = _dir_stat(mtime)]
             ELSE StatReal(parts, versions[version_label],
                           resolve_path(versions[version_label], inner_path))
    ELSE LET ds_id == listing.folder_lookup[p.dataset_name].id
             real == resolve_path(ds_id, p.subpath)
         IN  IF real = None
             THEN [FsRet("getattr", parts, "ENOENT") EXCEPT !.id = ds_id]
             ELSE [FsRet("getattr", parts, "ok") EXCEPT
                       !.id = ds_id,
                       !.real = real,
                       !.st = IF is_dir(real) THEN _dir_stat(getmtime(real))
                              ELSE _file_stat_from_path(real)]

\* getattr(path) as it answers while the listings L are the current ones.
getattr_within(parts, L) ==
    LET p == _parse_path(parts) IN
    IF p.category = NoStr
    THEN [FsRet("getattr", parts, "ok") EXCEPT !.st = _dir_stat(0)]
    ELSE IF ~InSeq(p.category, available_categories)
    THEN FsRet("getattr", parts, "ENOENT")
    ELSE IF p.dataset_name = NoStr
    THEN [FsRet("getattr", parts, "ok") EXCEPT !.st = _dir_stat(0)]
    ELSE getattr_listed(parts, L[p.category])

\* The state of the download cache and of its callers.
cachevars ==
    <<max_bytes, entry, tmp, locks, lockHolder, globalHolder, clock, pc, arg,
      err, sweep, ret, downloads, ncalls, called, failed, others>>

\* The open-handle bookkeeping and the descriptors behind it.
handles == <<open_fds, next_fh, os_files, os_pos>>

\* What no path operation changes: the login, the configuration, the time,
\* the service, and the bookkeeping of the other kinds of call.
config == <<authenticated, custom_dirs, time_now, service, returned, objects,
            cache_ref, glcall>>
mount == <<config, nio>>

\* A FUSE operation on the path parts enters on an idle worker thread.
Enters(t) ==
    /\ pc[t] = "idle"
    /\ fsop[t].op = "none"
    /\ nops < MaxOps
    /\ nops' = nops + 1

\* The operation is over and r goes back to the kernel.
Deliver(t, r) ==
    /\ fsret' = [r EXCEPT !.t = t]
    /\ fsop' = [fsop EXCEPT ![t] = NoOp]

\* The operation hands r back without touching catalog or cache.
Answer(t, r) ==
    /\ Deliver(t, r)
    /\ UNCHANGED <<cachevars, listings, searches, handles>>

\* The search of a refresh raises and the exception leaves the operation.
SearchFails(t, op, parts, category) ==
    /\ ~IsFresh(category)
    /\ Deliver(t, FsRet(op, parts, "search_failed"))
    /\ searches' = Searched(category)
    /\ UNCHANGED <<cachevars, listings, handles>>

\* getattr(path)
Getattr(t, parts) ==
    /\ Enters(t)
    /\ LET p == _parse_path(parts) IN
       IF p.category = NoStr
       THEN Answer(t, [FsRet("getattr", parts, "ok") EXCEPT
                           !.st = _dir_stat(0)])
       ELSE IF ~InSeq(p.category, available_categories)
       THEN Answer(t, FsRet("getattr", parts, "ENOENT"))
       ELSE IF p.dataset_name = NoStr
       THEN Answer(t, [FsRet("getattr", parts, "ok") EXCEPT
                           !.st = _dir_stat(0)])
       ELSE \/ SearchFails(t, "getattr", parts, p.category)
            \/ /\ Deliver(t, getattr_listed(parts, get_listing(p.category)))
               /\ listings' = StoreListing(p.category)
               /\ searches' = Searched(p.category)
               /\ UNCHANGED <<cachevars, handles>>
    /\ UNCHANGED mount

\* ------------------------------------------------------------------------
\* NMRHubFS.readdir
\* ------------------------------------------------------------------------
\* entries = [".", ".."] + names
Entries(parts, names) ==
    [FsRet("readdir", parts, "ok") EXCEPT !.names = <<".", "..">> \o names]

\* A readdir that enters the original version as soon as a Published dataset
\* folder is listed.
readdir_listed_enters_version(parts, listing) ==
    LET p == _parse_path(parts) IN
    IF p.dataset_name = NoStr
    THEN Entries(parts, listing.folder_names)
    ELSE IF p.dataset_name \notin DOMAIN listing.folder_lookup
    THEN FsRet("readdir", parts, "ENOENT")
    ELSE IF p.category = PUBLISHED
    THEN LET versions == IF p.dataset_name \in DOMAIN listing.version_map
                         THEN listing.version_map[p.dataset_name] ELSE <<>>
         IN  IF p.subpath = None
             THEN Download(versions["Original"], <<>>)
             ELSE IF p.subpath[1] \notin DOMAIN versions
             THEN FsRet("readdir", parts, "ENOENT")
             ELSE Download(versions[p.subpath[1]], Tail(p.subpath))
    ELSE Download(listing.folder_lookup[p.dataset_name].id,
                  IF p.subpath = None THEN <<>> ELSE p.subpath)

\* readdir below a valid category, given the listing of that category:
\* the answer, or the dataset to download first.
readdir_listed(parts, listing) ==
    LET p == _parse_path(parts) IN
    IF p.dataset_name = NoStr
    THEN Entries(parts, listing.folder_names)
    ELSE IF p.dataset_name \notin DOMAIN listing.folder_lookup
    THEN FsRet("readdir", parts, "ENOENT")
    ELSE IF p.category = PUBLISHED
    THEN LET versions == IF p.dataset_name \in DOMAIN listing.version_map
                         THEN listing.version_map[p.dataset_name] ELSE <<>>
         IN  IF p.subpath = None
             THEN Entries(parts, SortNames(DOMAIN versions))
             ELSE IF p.subpath[1] \notin DOMAIN versions
             THEN FsRet("readdir", parts, "ENOENT")
             ELSE Download(versions[p.subpath[1]], Tail(p.subpath))
    ELSE Download(listing.folder_lookup[p.dataset_name].id,
                  IF p.subpath = None THEN <<>> ELSE p.subpath)

\* self._download(ds_id): the thread enters ensure_downloaded and comes back
\* to the operation when that call is over.
_download(t, op, parts, plan) ==
    /\ fsop' = [fsop EXCEPT ![t] = [NoOp EXCEPT !.op = op, !.parts = parts,
                                                !.id = plan.id,
                                                !.inner = plan.inner]]
    /\ Enter(t, plan.id)
    /\ UNCHANGED <<fsret, handles>>

\* readdir(path), up to the download if it needs one
Readdir(t, parts) ==
    /\ Enters(t)
    /\ LET p == _parse_path(parts) IN
       IF p.category = NoStr
       THEN Answer(t, Entries(parts,
                [i \in 1..Len(available_categories) |->
                     category_display_name(available_categories[i])]))
       ELSE IF ~InSeq(p.category, available_categories)
       THEN Answer(t, FsRet("readdir", parts, "ENOENT"))
       ELSE \/ SearchFails(t, "readdir", parts, p.category)
            \/ LET plan == readdir_listed(parts, get_listing(p.category)) IN
               /\ listings' = StoreListing(p.category)
               /\ searches' = Searched(p.category)
               /\ IF plan.k = "download"
                  THEN _download(t, "readdir", parts, plan)
                  ELSE /\ Deliver(t, plan)
                       /\ UNCHANGED <<cachevars, handles>>
    /\ UNCHANGED mount

\* readdir after self._download returned: the names of list_entries.
ReaddirFinish(t) ==
    /\ pc[t] = "idle"
    /\ fsop[t].op = "readdir"
    /\ Deliver(t,
         IF ret[t].k = "raised"
         THEN [FsRet("readdir", fsop[t].parts, "download_failed") EXCEPT
                   !.id = fsop[t].id]
         ELSE [Entries(fsop[t].parts,
                       list_entries(fsop[t].id, fsop[t].inner)) EXCEPT
                   !.id = fsop[t].id,
                   !.real = Walk(<<>>, JoinPath(_dataset_dir(fsop[t].id),
                                                fsop[t].inner))])
    /\ UNCHANGED <<cachevars, listings, searches, handles, nops, mount>>

\* ------------------------------------------------------------------------
\* NMRHubFS.open
\* ------------------------------------------------------------------------
\* open of a file path below a valid category, given the listing: Not-Found,
\* or the dataset to download first.
open_listed(parts, listing) ==
    LET p == _parse_path(parts) IN
    IF p.category = PUBLISHED
    THEN IF p.dataset_name \notin DOMAIN listing.version_map
         THEN FsRet("open", parts, "ENOENT")
         ELSE IF p.subpath[1] \notin DOMAIN listing.version_map[p.dataset_name]
         THEN FsRet("open", parts, "ENOENT")
         ELSE Download(listing.version_map[p.dataset_name][p.subpath[1]],
                       Tail(p.subpath))
    ELSE IF p.dataset_name \notin DOMAIN listing.folder_lookup
    THEN FsRet("open", parts, "ENOENT")
    ELSE Download(listing.folder_lookup[p.dataset_name].id, p.subpath)

\* open(path, flags), up to the download
Open(t, parts) ==
    /\ Enters(t)
    /\ LET p == _parse_path(parts) IN
       IF p.category = NoStr \/ p.dataset_name = NoStr \/ p.subpath = None
       THEN Answer(t, FsRet("open", parts, "EISDIR"))
       ELSE IF ~InSeq(p.category, available_categories)
       THEN Answer(t, FsRet("open", parts, "ENOENT"))
       ELSE IF p.category = PUBLISHED /\ Len(p.subpath) = 1
       THEN Answer(t, FsRet("open", parts, "EISDIR"))
       ELSE \/ SearchFails(t, "open", parts, p.category)
            \/ LET plan == open_listed(parts, get_listing(p.category)) IN
               /\ listings' = StoreListing(p.category)
               /\ searches' = Searched(p.category)
               /\ IF plan.k = "download"
                  THEN _download(t, "open", parts, plan)
                  ELSE /\ Deliver(t, plan)
                       /\ UNCHANGED <<cachevars, handles>>
    /\ UNCHANGED mount

\* An open that goes on to os.open with a real path that is a directory.
OpenResolve_serves_dirs(t) ==
    /\ pc[t] = "idle"
    /\ fsop[t].op = "open"
    /\ LET real == resolve_path(fsop[t].id, fsop[t].inner)
           r == [FsRet("open", fsop[t].parts, "ok") EXCEPT !.id = fsop[t].id]
       IN
       IF ret[t].k = "raised"
       THEN Deliver(t, [r EXCEPT !.k = "download_failed"])
       ELSE IF real = None
       THEN Deliver(t, [r EXCEPT !.k = "ENOENT"])
       ELSE /\ fsop' = [fsop EXCEPT ![t].op = "os_open", ![t].real = real]
            /\ UNCHANGED fsret
    /\ UNCHANGED <<cachevars, listings, searches, handles, nops, mount>>

\* open after self._download returned: resolve_path and the is_dir test.
OpenResolve(t) ==
    /\ pc[t] = "idle"
    /\ fsop[t].op = "open"
    /\ LET real == resolve_path(fsop[t].id, fsop[t].inner)
           r == [FsRet("open", fsop[t].parts, "ok") EXCEPT !.id = fsop[t].id]
       IN
       IF ret[t].k = "raised"
       THEN Deliver(t, [r EXCEPT !.k = "download_failed"])
       ELSE IF real = None \/ is_dir(real)
       THEN Deliver(t, [r EXCEPT !.k = "ENOENT"])
       ELSE /\ fsop' = [fsop EXCEPT ![t].op = "os_open", ![t].real = real]
            /\ UNCHANGED fsret
    /\ UNCHANGED <<cachevars, listings, searches, handles, nops, mount>>

\* The descriptor os.open hands out: the lowest one that is not open (0, 1
\* and 2 are the standard streams).
FreeFd ==
    CHOOSE fd \in 3..(3 + Cardinality(DOMAIN os_files)) :
        /\ fd \notin DOMAIN os_files
        /\ \A g \in 3..(fd - 1) : g \in DOMAIN os_files

\* os_fd = os.open(str(real), os.O_RDONLY); it raises if the file is gone.
OsOpen(t) ==
    /\ fsop[t].op = "os_open"
    /\ IF ~exists(fsop[t].real)
       THEN /\ Deliver(t, [FsRet("open", fsop[t].parts, "OSError") EXCEPT
                               !.id = fsop[t].id])
            /\ UNCHANGED <<os_files, os_pos>>
       ELSE /\ os_files' = os_files @@ (FreeFd :> fsop[t].real)
            /\ os_pos' = os_pos @@ (FreeFd :> 0)
            /\ fsop' = [fsop EXCEPT ![t].op = "take_fh", ![t].os_fd = FreeFd]
            /\ UNCHANGED fsret
    /\ UNCHANGED <<cachevars, listings, searches, open_fds, next_fh, nops,
                   mount>>

\* fh = self._next_fh
OpenTakeFh(t) ==
    /\ fsop[t].op = "take_fh"
    /\ fsop' = [fsop EXCEPT ![t].op = "store_fh", ![t].fh = next_fh]
    /\ UNCHANGED <<cachevars, listings, searches, handles, nops, mount, fsret>>

\* self._next_fh += 1; self._open_fds[fh] = os_fd; return fh
OpenStore(t) ==
    /\ fsop[t].op = "store_fh"
    /\ next_fh' = next_fh + 1
    /\ open_fds' = [h \in DOMAIN open_fds \cup {fsop[t].fh} |->
                       IF h = fsop[t].fh THEN fsop[t].os_fd ELSE open_fds[h]]
    /\ Deliver(t, [FsRet("open", fsop[t].parts, "ok") EXCEPT
                       !.id = fsop[t].id, !.real = fsop[t].real,
                       !.fh = fsop[t].fh])
    /\ UNCHANGED <<cachevars, listings, searches, os_files, os_pos, nops,
                   mount>>

\* ------------------------------------------------------------------------
\* NMRHubFS.read, NMRHubFS.release and the mutating operations
\* ------------------------------------------------------------------------
\* A read, a release or a mutating operation enters on an idle worker thread.
EntersIO(t) ==
    /\ pc[t] = "idle"
    /\ fsop[t].op = "none"
    /\ nio < MaxIO
    /\ nio' = nio + 1

\* The handle numbers the kernel may pass: those open can have returned, and
\* one it never returned.
Handles == 1..(MaxOps + 1)

\* read(path, size, offset, fh): os_fd = self._open_fds.get(fh), EBADF if None
Read(t, fh) ==
    /\ EntersIO(t)
    /\ IF fh \notin DOMAIN open_fds
       THEN Deliver(t, [FsRet("read", <<>>, "EBADF") EXCEPT !.fh = fh])
       ELSE /\ fsop' = [fsop EXCEPT ![t] = [NoOp EXCEPT !.op = "read",
                                                       !.fh = fh,
                                                       !.os_fd = open_fds[fh]]]
            /\ UNCHANGED fsret
    /\ UNCHANGED <<cachevars, listings, searches, handles, nops, config>>

\* A read that also touches the directory of the dataset it reads from.
ReadIO_touches(t) ==
    /\ fsop[t].op = "read"
    /\ Deliver(t, IF fsop[t].os_fd \in DOMAIN os_files
                  THEN [FsRet("read", <<>>, "ok") EXCEPT
                            !.fh = fsop[t].fh,
                            !.real = os_files[fsop[t].os_fd]]
                  ELSE [FsRet("read", <<>>, "OSError") EXCEPT
                            !.fh = fsop[t].fh])
    /\ entry' = IF fsop[t].os_fd \in DOMAIN os_files
                THEN LET real == os_files[fsop[t].os_fd]
                         id == CHOOSE i \in Ids : IdStr(i) = real[2]
                     IN  [entry EXCEPT ![id] = Touched(@, clock)]
                ELSE entry
    /\ UNCHANGED <<max_bytes, tmp, locks, lockHolder, globalHolder, clock, pc,
                   arg, err, sweep, ret, downloads, ncalls, called, failed,
                   others>>
    /\ UNCHANGED <<listings, searches, handles, nops, mount>>

\* os.lseek(os_fd, ...); os.read(os_fd, size): the bytes of the file the
\* descriptor stands for, or OSError if the descriptor is closed.
ReadIO(t) ==
    /\ fsop[t].op = "read"
    /\ Deliver(t, IF fsop[t].os_fd \in DOMAIN os_files
                  THEN [FsRet("read", <<>>, "ok") EXCEPT
                            !.fh = fsop[t].fh,
                            !.real = os_files[fsop[t].os_fd]]
                  ELSE [FsRet("read", <<>>, "OSError") EXCEPT
                            !.fh = fsop[t].fh])
    /\ UNCHANGED <<cachevars, listings, searches, handles, nops, mount>>

\* The bytes of a downloaded file: every position of every file holds a byte
\* of its own.
FileLen == 3
FileBytes(real) == [i \in 1..FileLen |-> <<real[Len(real)], i>>]

\* read(path, size, offset, fh), with the request's size and offset kept:
\* os_fd = self._open_fds.get(fh), EBADF if None
ReadAt(t, fh, size, offset) ==
    /\ EntersIO(t)
    /\ IF fh \notin DOMAIN open_fds
       THEN Deliver(t, [FsRet("read", <<>>, "EBADF") EXCEPT !.fh = fh])
       ELSE /\ fsop' = [fsop EXCEPT ![t] = [NoOp EXCEPT !.op = "lseek",
                                                       !.fh = fh,
                                                       !.os_fd = open_fds[fh],
                                                       !.size = size,
                                                       !.offset = offset]]
            /\ UNCHANGED fsret
    /\ UNCHANGED <<cachevars, listings, searches, handles, nops, config>>

\* os.lseek(os_fd, offset, os.SEEK_SET): the descriptor's file offset becomes
\* the requested one; OSError if the descriptor is closed.
Lseek(t) ==
    /\ fsop[t].op = "lseek"
    /\ IF fsop[t].os_fd \in DOMAIN os_files
       THEN /\ os_pos' = [os_pos EXCEPT ![fsop[t].os_fd] = fsop[t].offset]
            /\ fsop' = [fsop EXCEPT ![t].op = "os_read"]
            /\ UNCHANGED fsret
       ELSE /\ Deliver(t, [FsRet("read", <<>>, "OSError") EXCEPT
                               !.fh = fsop[t].fh])
            /\ UNCHANGED os_pos
    /\ UNCHANGED <<cachevars, listings, searches, open_fds, next_fh, os_files,
                   nops, mount>>

\* return os.read(os_fd, size): up to size bytes from the descriptor's file
\* offset, which moves past them; fewer at the end of the file; OSError if
\* the descriptor is closed.
OsRead(t) ==
    /\ fsop[t].op = "os_read"
    /\ LET fd == fsop[t].os_fd IN
       IF fd \in DOMAIN os_files
       THEN LET bytes == FileBytes(os_files[fd])
                from == IF os_pos[fd] < Len(bytes) THEN os_pos[fd]
                        ELSE Len(bytes)
                upto == IF from + fsop[t].size < Len(bytes)
                        THEN from + fsop[t].size ELSE Len(bytes)
            IN  /\ os_pos' = [os_pos EXCEPT ![fd] = @ + (upto - from)]
                /\ Deliver(t, [FsRet("read", <<>>, "ok") EXCEPT
                                   !.fh = fsop[t].fh,
                                   !.real = os_files[fd],
                                   !.data = SubSeq(bytes, from + 1, upto)])
       ELSE /\ Deliver(t, [FsRet("read", <<>>, "OSError") EXCEPT
                               !.fh = fsop[t].fh])
            /\ UNCHANGED os_pos
    /\ UNCHANGED <<cachevars, listings, searches, open_fds, next_fh, os_files,
                   nops, mount>>

\* A release that looks the handle up and leaves it in the map.
FsRelease_keeps_mapping(t, fh) ==
    /\ EntersIO(t)
    /\ IF fh \notin DOMAIN open_fds
       THEN Deliver(t, [FsRet("release", <<>>, "ok") EXCEPT !.fh = fh])
       ELSE /\ fsop' = [fsop EXCEPT ![t] = [NoOp EXCEPT !.op = "close",
                                                       !.fh = fh,
                                                       !.os_fd = open_fds[fh]]]
            /\ UNCHANGED fsret
    /\ UNCHANGED <<cachevars, listings, searches, handles, nops, config>>

\* release(path, fh): os_fd = self._open_fds.pop(fh, None)
FsRelease(t, fh) ==
    /\ EntersIO(t)
    /\ IF fh \notin DOMAIN open_fds
       THEN /\ Deliver(t, [FsRet("release", <<>>, "ok") EXCEPT !.fh = fh])
            /\ UNCHANGED open_fds
       ELSE /\ open_fds' = [h \in DOMAIN open_fds \ {fh} |-> open_fds[h]]
            /\ fsop' = [fsop EXCEPT ![t] = [NoOp EXCEPT !.op = "close",
                                                       !.fh = fh,
                                                       !.os_fd = open_fds[fh]]]
            /\ UNCHANGED fsret
    /\ UNCHANGED <<cachevars, listings, searches, next_fh, os_files, os_pos,
                   nops, config>>

\* os.close(os_fd); it raises OSError on a descriptor that is not open.
ReleaseClose(t) ==
    /\ fsop[t].op = "close"
    /\ IF fsop[t].os_fd \in DOMAIN os_files
       THEN /\ os_files' = [fd \in DOMAIN os_files \ {fsop[t].os_fd} |->
                               os_files[fd]]
            /\ os_pos' = [fd \in DOMAIN os_pos \ {fsop[t].os_fd} |->
                             os_pos[fd]]
            /\ Deliver(t, [FsRet("release", <<>>, "ok") EXCEPT
                               !.fh = fsop[t].fh])
       ELSE /\ Deliver(t, [FsRet("release", <<>>, "OSError") EXCEPT
                               !.fh = fsop[t].fh])
            /\ UNCHANGED <<os_files, os_pos>>
    /\ UNCHANGED <<cachevars, listings, searches, open_fds, next_fh, nops,
                   mount>>

\* The operations that would change the filesystem.
MutatingOps ==
    {"chmod", "chown", "create", "link", "mkdir", "mknod", "rename", "rmdir",
     "symlink", "truncate", "unlink", "utimens", "write"}

\* A mutating operation that carries an unlink through to the cache.
Mutate_unlinks(t, op, parts) ==
    /\ EntersIO(t)
    /\ Deliver(t, FsRet(op, parts, IF op = "unlink" THEN "ok" ELSE "EROFS"))
    /\ entry' = IF op = "unlink"
                THEN [id \in Ids |-> IF entry[id].n > 0
                                     THEN [entry[id] EXCEPT !.n = @ - 1]
                                     ELSE entry[id]]
                ELSE entry
    /\ UNCHANGED <<max_bytes, tmp, locks, lockHolder, globalHolder, clock, pc,
                   arg, err, sweep, ret, downloads, ncalls, called, failed,
                   others>>
    /\ UNCHANGED <<listings, searches, handles, nops, config>>

\* chmod, chown, create, ..., write: raise FuseOSError(errno.EROFS)
Mutate(t, op, parts) ==
    /\ EntersIO(t)
    /\ Deliver(t, FsRet(op, parts, "EROFS"))
    /\ UNCHANGED cachevars
    /\ UNCHANGED <<listings, searches, handles, nops, config>>

\* ------------------------------------------------------------------------
\* DatasetCatalog.get_listing, called on its own
\* ------------------------------------------------------------------------
\* What a call of the catalog leaves alone.
catalogframe ==
    <<cachevars, handles, fsop, fsret, nops, nio, authenticated, custom_dirs,
      service, objects, cache_ref, glcall>>

\* get_listing(category) returns: the stored snapshot, or a new one that it
\* has stored.
GetListing(category) ==
    /\ HasConfig(category)
    /\ searches[category] < MaxSearches
    /\ returned' = get_listing(category)
    /\ listings' = StoreListing(category)
    /\ searches' = Searched(category)
    /\ UNCHANGED <<catalogframe, time_now>>

\* get_listing(category) has to refresh and the search raises: the exception
\* leaves get_listing before anything is stored.
GetListingFails(category) ==
    /\ HasConfig(category)
    /\ searches[category] < MaxSearches
    /\ ~IsFresh(category)
    /\ returned' = NoListing
    /\ searches' = Searched(category)
    /\ UNCHANGED <<catalogframe, time_now, listings>>

\* What the stepwise get_listing calls leave alone.
refreshframe ==
    <<cachevars, handles, fsop, fsret, nops, nio, authenticated, custom_dirs,
      returned, time_now>>

\* cached = self._cache.get(category); the stored object is returned if it
\* is fresh, otherwise the call goes on to the search.
GLBegin(t, category) ==
    /\ glcall[t].pc = "idle"
    /\ HasConfig(category)
    /\ searches[category] < MaxSearches
    /\ glcall' = [glcall EXCEPT ![t] =
                     IF IsFresh(category)
                     THEN [NoCall EXCEPT !.category = category,
                                         !.ref = cache_ref[category]]
                     ELSE [NoCall EXCEPT !.pc = "fetch",
                                         !.category = category]]
    /\ UNCHANGED <<refreshframe, service, listings, searches, objects,
                   cache_ref>>

\* datasets = list(self._fetch(category)): the search answers with what the
\* service holds now, or raises and the exception leaves get_listing.
GLFetch(t) ==
    /\ glcall[t].pc = "fetch"
    /\ searches' = [searches EXCEPT ![glcall[t].category] = @ + 1]
    /\ \/ glcall' = [glcall EXCEPT ![t].pc = "store",
                                   ![t].datasets = _fetch(glcall[t].category)]
       \/ glcall' = [glcall EXCEPT ![t] = NoCall]
    /\ UNCHANGED <<refreshframe, service, listings, objects, cache_ref>>

\* A store that fills the fields of the object the slot holds already.
GLStore_in_place(t) ==
    /\ glcall[t].pc = "store"
    /\ LET c == glcall[t].category
           listing == BuildListingOf(c, glcall[t].datasets)
           ref == IF cache_ref[c] = 0 THEN Len(objects) + 1 ELSE cache_ref[c]
       IN  /\ objects' = [o \in 1..(IF cache_ref[c] = 0 THEN Len(objects) + 1
                                     ELSE Len(objects)) |->
                              IF o = ref
                              THEN [category |-> c, listing |-> listing]
                              ELSE objects[o]]
           /\ cache_ref' = [cache_ref EXCEPT ![c] = ref]
           /\ listings' = [listings EXCEPT ![c] = listing]
           /\ glcall' = [glcall EXCEPT ![t] =
                            [NoCall EXCEPT !.category = c, !.ref = ref]]
    /\ UNCHANGED <<refreshframe, service, searches>>

\* listing = CachedListing(...), a new object stamped with the present time;
\* self._cache[category] = listing; return listing
GLStore(t) ==
    /\ glcall[t].pc = "store"
    /\ LET c == glcall[t].category
           listing == BuildListingOf(c, glcall[t].datasets)
           ref == Len(objects) + 1
       IN  /\ objects' = Append(objects, [category |-> c, listing |-> listing])
           /\ cache_ref' = [cache_ref EXCEPT ![c] = ref]
           /\ listings' = [listings EXCEPT ![c] = listing]
           /\ glcall' = [glcall EXCEPT ![t] =
                            [NoCall EXCEPT !.category = c, !.ref = ref]]
    /\ UNCHANGED <<refreshframe, service, searches>>

\* The service loses the last dataset of a category.
ServiceChanges(category) ==
    /\ service[category] # <<>>
    /\ service' = [service EXCEPT ![category] =
                       SubSeq(@, 1, Len(@) - 1)]
    /\ UNCHANGED <<cachevars, handles, fsop, fsret, nops, nio, authenticated,
                   custom_dirs, returned, time_now, listings, searches,
                   objects, cache_ref, glcall>>

\* Time passes.
Tick ==
    /\ time_now < MaxNow
    /\ time_now' = time_now + 1
    /\ UNCHANGED <<catalogframe, listings, searches, returned>>

\* ------------------------------------------------------------------------
\* The cache under concurrent callers
\* ------------------------------------------------------------------------
\* The state of catalog and FUSE layer right after NMRHubFS.__init__.
InitMount ==
    /\ listings = [c \in CategoryKeys |-> NoListing]
    /\ time_now = 0
    /\ open_fds = <<>>
    /\ next_fh = 1
    /\ fsop = [t \in Threads |-> NoOp]
    /\ fsret = NoFsRet
    /\ nops = 0
    /\ os_files = <<>>
    /\ os_pos = <<>>
    /\ nio = 0
    /\ service = [c \in CategoryKeys |-> RemoteDatasets(c)]
    /\ searches = [c \in CategoryKeys |-> 0]
    /\ returned = NoListing
    /\ objects = <<>>
    /\ cache_ref = [c \in CategoryKeys |-> 0]
    /\ glcall = [t \in Threads |-> NoCall]

\* DownloadCache.__init__ on a cache root that holds no dataset yet, only the
\* children o the cache did not make.
InitCacheOver(o) ==
    /\ others = o
    /\ max_bytes \in 1..MaxBudget
    /\ entry = [id \in Ids |-> NoEntry]
    /\ tmp = [t \in Threads |-> NoTmp]
    /\ locks = {}
    /\ lockHolder = [id \in Ids |-> NoThread]
    /\ globalHolder = NoThread
    /\ clock = 0
    /\ pc = [t \in Threads |-> "idle"]
    /\ arg = [t \in Threads |-> 0]
    /\ err = [t \in Threads |-> "none"]
    /\ sweep = [t \in Threads |-> NoSweep]
    /\ ret = [t \in Threads |-> NoRet]
    /\ downloads = [id \in Ids |-> 0]
    /\ ncalls = [t \in Threads |-> 0]
    /\ called = {}
    /\ failed = {}

\* DownloadCache.__init__ on an empty cache root.
InitCache == InitCacheOver(<<>>)

\* The cache used on its own: no mount, nobody logged in.
Init ==
    /\ InitCache
    /\ authenticated = FALSE
    /\ custom_dirs = <<>>
    /\ InitMount

EnsureStep(t) ==
    \/ LockFor(t) \/ Acquire(t) \/ Check(t) \/ TouchReturn(t)
    \/ CleanupExists(t) \/ CleanupRmtree(t) \/ Mkdtemp(t)
    \/ DownloadStart(t) \/ DownloadEnd(t) \/ Unwrap(t) \/ Rename(t)
    \/ ExceptCleanup(t) \/ Raise(t) \/ Release(t)

EvictStep(t) ==
    \/ EvictAcquire(t) \/ ScanChild(t) \/ ScanDone(t) \/ EvictNext(t)
    \/ RmtreeFiles(t) \/ RmtreeDir(t)

Next ==
    \E t \in Threads :
        \/ \E id \in Ids : Call(t, id)
        \/ EnsureStep(t)
        \/ EvictStep(t)

Spec == Init /\ [][Next]_vars

\* The same program with every thread that can take a step of
\* ensure_downloaded or of the sweep eventually taking one: the scheduler
\* runs every runnable thread, a download that was started ends (by returning
\* or by failing), and a thread waiting for a lock that stays free gets it.
\* Callers are free to call or not.
SpecFair ==
    /\ Init
    /\ [][Next]_vars
    /\ \A t \in Threads : WF_vars(EnsureStep(t) \/ EvictStep(t))

\* ------------------------------------------------------------------------
\* The mounted filesystem under concurrent requests
\* ------------------------------------------------------------------------
\* The paths requested: the root, categories (visible, hidden, unknown),
\* dataset folders (listed or not), version folders, and content paths, some
\* of them leaving the dataset directory.
Paths ==
    {<<>>,
     <<PUBLIC>>, <<"My Datasets">>, <<"nope">>,
     <<PUBLIC, "a">>, <<PUBLIC, "zz">>,
     <<PUBLIC, "a", "f1">>, <<PUBLIC, "a", "..">>,
     <<PUBLIC, "a", "..", "12", "f1">>,
     <<PUBLIC, "b", "lnk">>,
     <<PUBLISHED, "p">>, <<PUBLISHED, "zz">>, <<PUBLISHED, "p", "v1">>,
     <<PUBLISHED, "p", "v9">>,
     <<PUBLISHED, "p", "Original", "f1">>}

\* A fresh mount over an empty cache root.
InitFS ==
    /\ InitCache
    /\ max_bytes \in {1, MaxBudget}
    /\ authenticated \in BOOLEAN
    /\ custom_dirs \in {<<>>, <<CustomName>>}
    /\ authenticated => custom_dirs = <<>>
    /\ InitMount

FsStep(t) ==
    \/ \E parts \in Paths : Getattr(t, parts)
    \/ \E parts \in Paths : Readdir(t, parts)
    \/ \E parts \in Paths : Open(t, parts)
    \/ ReaddirFinish(t)
    \/ OpenResolve(t) \/ OsOpen(t) \/ OpenTakeFh(t) \/ OpenStore(t)

NextFS ==
    \E t \in Threads : FsStep(t) \/ EnsureStep(t) \/ EvictStep(t)

SpecFS == InitFS /\ [][NextFS]_vars

\* ------------------------------------------------------------------------
\* Directories listed at every level
\* ------------------------------------------------------------------------
\* The root, a category, a Published dataset folder, and the content of
\* datasets: top level, a subdirectory, a version folder.
ListPaths ==
    {<<>>, <<PUBLIC>>, <<PUBLISHED, "p">>, <<PUBLIC, "a">>,
     <<PUBLIC, "a", "d">>, <<PUBLIC, "b">>, <<PUBLISHED, "p", "Original">>}

ListStep(t) ==
    \/ \E parts \in ListPaths : Readdir(t, parts)
    \/ ReaddirFinish(t)

NextList ==
    \E t \in Threads : ListStep(t) \/ EnsureStep(t) \/ EvictStep(t)

SpecList == InitFS /\ [][NextList]_vars

\* ------------------------------------------------------------------------
\* Open files: open, read, release and the mutating operations
\* ------------------------------------------------------------------------
\* The files opened and the paths the mutating operations are tried on.
FilePaths == {<<PUBLIC, "a", "f1">>, <<PUBLIC, "a", "f2">>}
MutPaths == {<<>>, <<PUBLIC, "a", "f1">>}

\* A fresh mount over an empty cache root, nobody logged in.
InitIO ==
    /\ InitCache
    /\ max_bytes \in {1, MaxBudget}
    /\ authenticated = FALSE
    /\ custom_dirs = <<>>
    /\ InitMount

IOStep(t) ==
    \/ \E parts \in FilePaths : Open(t, parts)
    \/ OpenResolve(t) \/ OsOpen(t) \/ OpenTakeFh(t) \/ OpenStore(t)
    \/ \E fh \in Handles : Read(t, fh)
    \/ ReadIO(t)
    \/ \E fh \in Handles : FsRelease(t, fh)
    \/ ReleaseClose(t)
    \/ \E op \in MutatingOps, parts \in MutPaths : Mutate(t, op, parts)

NextIO ==
    \E t \in Threads : IOStep(t) \/ EnsureStep(t) \/ EvictStep(t)

SpecIO == InitIO /\ [][NextIO]_vars

\* ------------------------------------------------------------------------
\* Reads at offsets
\* ------------------------------------------------------------------------
\* The file read, and the sizes and offsets the kernel asks for: the start
\* of the file and a place from which fewer bytes than asked for are left.
ReadPaths == {<<PUBLIC, "a", "f1">>}
ReadSizes == {2}
ReadOffsets == {0, 2}

ReadStep(t) ==
    \/ \E parts \in ReadPaths : Open(t, parts)
    \/ OpenResolve(t) \/ OsOpen(t) \/ OpenTakeFh(t) \/ OpenStore(t)
    \/ \E fh \in Handles, size \in ReadSizes, offset \in ReadOffsets :
          ReadAt(t, fh, size, offset)
    \/ Lseek(t)
    \/ OsRead(t)
    \/ \E fh \in Handles : FsRelease(t, fh)
    \/ ReleaseClose(t)

NextRead ==
    \E t \in Threads : ReadStep(t) \/ EnsureStep(t) \/ EvictStep(t)

SpecRead == InitIO /\ [][NextRead]_vars

\* ------------------------------------------------------------------------
\* Listings built from whatever the service holds
\* ------------------------------------------------------------------------
\* The names and start times the datasets of the service may carry: a plain
\* name, names that look like a disambiguated one, and no name; no start
\* time, and two start times within the same minute.
NameChoices ==
    {"x", "x (2024-06-15 10:30)", "x (2024-06-15 10:30) [1]", NoStr}
StartChoices == {NoStr, "2024-06-15T10:30:00Z", "2024-06-15T10:30:59Z"}

\* The published versions a dataset may carry: none, or versions 2 and 5.
VersionChoices(id) ==
    IF id = 2
    THEN {<<>>, <<[version |-> 2, dataset |-> 12],
                  [version |-> 5, dataset |-> 1]>>}
    ELSE {<<>>}

\* The records the service may hold of dataset id, as lists of at most one.
RecordsOf(id) ==
    {<<>>} \cup {<<Dataset(id, n, s, v)>> : n \in NameChoices,
                     s \in StartChoices, v \in VersionChoices(id)}

\* The answers of a search: records with pairwise distinct identifiers.
DatasetLists == {a \o b \o c : a \in RecordsOf(1), b \in RecordsOf(2),
                                c \in RecordsOf(12)}

\* The dataset folders listed below the Published category.
PublishedPaths == {<<PUBLISHED, "x">>, <<PUBLISHED, "x (2024-06-15 10:30)">>}

\* A fresh mount; the service answers every search with the same datasets.
InitNames ==
    /\ InitCache
    /\ max_bytes = MaxBudget
    /\ authenticated = FALSE
    /\ custom_dirs = <<>>
    /\ listings = [c \in CategoryKeys |-> NoListing]
    /\ time_now = 0
    /\ open_fds = <<>>
    /\ next_fh = 1
    /\ fsop = [t \in Threads |-> NoOp]
    /\ fsret = NoFsRet
    /\ nops = 0
    /\ os_files = <<>>
    /\ os_pos = <<>>
    /\ nio = 0
    /\ \E ds \in DatasetLists : service = [c \in CategoryKeys |-> ds]
    /\ searches = [c \in CategoryKeys |-> 0]
    /\ returned = NoListing
    /\ objects = <<>>
    /\ cache_ref = [c \in CategoryKeys |-> 0]
    /\ glcall = [t \in Threads |-> NoCall]

NextNames ==
    \/ \E c \in {PUBLIC, PUBLISHED} : GetListing(c)
    \/ \E parts \in PublishedPaths : Readdir(1, parts)

SpecNames == InitNames /\ [][NextNames]_vars

\* ------------------------------------------------------------------------
\* getattr on the dataset folders of drawn listings
\* ------------------------------------------------------------------------
\* Dataset folders that the drawn listings may or may not hold.
StatPaths ==
    {<<PUBLIC, "x">>, <<PUBLISHED, "x (2024-06-15 10:30)">>, <<PUBLIC, "zz">>}

NextStat == \E t \in Threads, parts \in StatPaths : Getattr(t, parts)

SpecStat == InitNames /\ [][NextStat]_vars

\* ------------------------------------------------------------------------
\* The listing cache as time passes
\* ------------------------------------------------------------------------
\* The categories looked up.
LookedUp == {PUBLIC, PUBLISHED, CustomName}

\* A fresh mount with a custom directory.
InitCatalog ==
    /\ InitCache
    /\ max_bytes = MaxBudget
    /\ authenticated = FALSE
    /\ custom_dirs = <<CustomName>>
    /\ InitMount

NextCatalog ==
    \/ \E c \in LookedUp : GetListing(c)
    \/ \E c \in LookedUp : GetListingFails(c)
    \/ Tick

SpecCatalog == InitCatalog /\ [][NextCatalog]_vars

\* ------------------------------------------------------------------------
\* Concurrent refreshes of the listing cache
\* ------------------------------------------------------------------------
\* The categories refreshed.
Refreshed == {PUBLIC, PUBLISHED}

\* The searches invoked so far, over all categories.
TotalSearches == SumOver(searches, Refreshed)

NextRefresh ==
    \/ \E t \in Threads :
          \/ \E c \in Refreshed :
                TotalSearches < MaxSearches /\ GLBegin(t, c)
          \/ GLFetch(t)
          \/ GLStore(t)
    \/ ServiceChanges(PUBLIC)
    \/ Tick

SpecRefresh == InitCatalog /\ [][NextRefresh]_vars

\* ------------------------------------------------------------------------
\* Which categories a mount shows
\* ------------------------------------------------------------------------
\* The root, every category name and an unknown name, and a folder below the
\* names that may be hidden or unknown.
TopPaths ==
    {<<>>, <<"nope">>} \cup {<<c>> : c \in CategoryKeys}
        \cup {<<c, "zz">> : c \in {Category[3], Category[4], CustomName, "nope"}}

\* A fresh mount, logged in or not, with or without a custom directory.
InitVisible ==
    /\ InitCache
    /\ max_bytes = MaxBudget
    /\ authenticated \in BOOLEAN
    /\ custom_dirs \in {<<>>, <<CustomName>>}
    /\ InitMount

NextVisible ==
    \E t \in Threads, parts \in TopPaths :
        Getattr(t, parts) \/ Readdir(t, parts)

SpecVisible == InitVisible /\ [][NextVisible]_vars

\* ------------------------------------------------------------------------
\* open on every shape of path
\* ------------------------------------------------------------------------
\* Directory-shaped paths (root, category, dataset folder, version folder,
\* known or not) and file-shaped paths that lead to a file, to a directory
\* and to nothing.
OpenPaths ==
    {<<>>, <<PUBLIC>>, <<"nope">>, <<PUBLIC, "a">>, <<"nope", "a">>,
     <<PUBLISHED, "p", "v1">>, <<PUBLISHED, "zz", "v9">>,
     <<PUBLIC, "a", "f1">>, <<PUBLIC, "a", "d">>, <<PUBLIC, "a", "zz">>}

OpenStep(t) ==
    \/ \E parts \in OpenPaths : Open(t, parts)
    \/ OpenResolve(t) \/ OsOpen(t) \/ OpenTakeFh(t) \/ OpenStore(t)

NextOpen ==
    \E t \in Threads : OpenStep(t) \/ EnsureStep(t) \/ EvictStep(t)

SpecOpen == InitIO /\ [][NextOpen]_vars

\* ------------------------------------------------------------------------
\* A mount over a cache root that holds a dataset already
\* ------------------------------------------------------------------------
\* A file of dataset 12, which the root holds, and one of dataset 2.
ClockPaths == {<<PUBLIC, "b", "f1">>, <<PUBLISHED, "p", "Original", "f1">>}

\* DownloadCache.__init__ and a fresh mount on a root where an earlier run
\* has left dataset 12.
InitClock ==
    /\ max_bytes \in {1, MaxBudget}
    /\ entry = [id \in Ids |->
                  IF id = 12
                  THEN [kind |-> "dir", n |-> DatasetSize(12), mtime |-> 1]
                  ELSE NoEntry]
    /\ clock = 1
    /\ tmp = [t \in Threads |-> NoTmp]
    /\ locks = {}
    /\ lockHolder = [id \in Ids |-> NoThread]
    /\ globalHolder = NoThread
    /\ pc = [t \in Threads |-> "idle"]
    /\ arg = [t \in Threads |-> 0]
    /\ err = [t \in Threads |-> "none"]
    /\ sweep = [t \in Threads |-> NoSweep]
    /\ ret = [t \in Threads |-> NoRet]
    /\ downloads = [id \in Ids |-> 0]
    /\ ncalls = [t \in Threads |-> 0]
    /\ called = {}
    /\ failed = {}
    /\ others = <<>>
    /\ authenticated = FALSE
    /\ custom_dirs = <<>>
    /\ InitMount

ClockStep(t) ==
    \/ \E parts \in ClockPaths : Getattr(t, parts)
    \/ Readdir(t, <<PUBLIC, "b">>) \/ ReaddirFinish(t)
    \/ \E parts \in ClockPaths : Open(t, parts)
    \/ OpenResolve(t) \/ OsOpen(t) \/ OpenTakeFh(t) \/ OpenStore(t)
    \/ \E fh \in Handles : Read(t, fh)
    \/ ReadIO(t)
    \/ \E fh \in Handles : FsRelease(t, fh)
    \/ ReleaseClose(t)

NextClock ==
    \E t \in Threads : ClockStep(t) \/ EnsureStep(t) \/ EvictStep(t)

SpecClock == InitClock /\ [][NextClock]_vars

\* ------------------------------------------------------------------------
\* The cache on a root that holds foreign children
\* ------------------------------------------------------------------------
\* A directory whose name is no number and a regular file whose name is one.
ForeignChildren == (<<"x">> :> "dir") @@ (<<"7">> :> "file")

\* Budgets that make the sweep evict.
InitSweep ==
    /\ InitCacheOver(ForeignChildren)
    /\ max_bytes \in {1, 2}
    /\ authenticated = FALSE
    /\ custom_dirs = <<>>
    /\ InitMount

SpecSweep == InitSweep /\ [][Next]_vars

\* ------------------------------------------------------------------------
\* One eviction sweep without concurrent cache activity
\* ------------------------------------------------------------------------
\* A cache root left by earlier activity (any budget, any entries whole or
\* partly removed, any timestamps); thread 1 has just installed a dataset
\* and released its lock; nobody else is active.
InitEvict ==
    /\ max_bytes \in 1..MaxBudget
    /\ entry \in [Ids -> {NoEntry} \cup
                         [kind : {"dir"}, n : 0..3, mtime : 1..MaxMtime]]
    /\ \A id \in Ids : entry[id].n <= DatasetSize(id)
    /\ tmp = [t \in Threads |-> NoTmp]
    /\ locks = Ids
    /\ lockHolder = [id \in Ids |-> NoThread]
    /\ globalHolder = NoThread
    /\ clock = MaxMtime
    /\ pc = [t \in Threads |-> IF t = 1 THEN "evict" ELSE "idle"]
    /\ arg \in [Threads -> Ids]
    /\ \A t \in Threads : t # 1 => arg[t] = arg[1]
    /\ entry[arg[1]].kind = "dir" /\ entry[arg[1]].n = DatasetSize(arg[1])
    /\ err = [t \in Threads |-> "none"]
    /\ sweep = [t \in Threads |-> NoSweep]
    /\ ret = [t \in Threads |-> NoRet]
    /\ downloads = [id \in Ids |-> 0]
    /\ ncalls = [t \in Threads |-> 0]
    /\ called = {}
    /\ failed = {}
    /\ others = <<>>
    /\ authenticated = FALSE
    /\ custom_dirs = <<>>
    /\ InitMount

NextEvict == EvictStep(1)

SpecEvict == InitEvict /\ [][NextEvict]_vars

\* ------------------------------------------------------------------------
\* Properties of the download cache
\* ------------------------------------------------------------------------
\* A call of thread t returns normally in this step.
Returns(t) == pc[t] # "idle" /\ pc'[t] = "idle" /\ ret'[t].k = "path"

\* The positions between acquiring and releasing the per-dataset lock.
InLock == {"check", "touch", "cleanup", "cleanup_rm", "mkdtemp", "download",
           "downloading", "unwrap", "rename", "except", "raise", "release"}

\* C1: when the threads call ensure_downloaded with one and the same
\* identifier, once each, on a cache that does not hold it, and no download
\* fails, the external download is invoked exactly once and every call
\* returns the path of that dataset.
C1_DownloadExactlyOnce ==
    \A id \in Ids :
        (called = {id} /\ failed = {} /\ \A t \in Threads : ncalls[t] <= 1)
        => /\ downloads[id] <= 1
           /\ \A t \in Threads :
                 ret[t].k # "none" => ret[t] = [k |-> "path", id |-> id]
           /\ (\A t \in Threads : ncalls[t] = 1 /\ pc[t] = "idle")
                 => downloads[id] = 1

\* C2: when ensure_downloaded(id) returns normally, is_cached(id) is true
\* and resolve_path(id, "") is the dataset directory.
C2_CachedAfterReturn ==
    [][\A t \in Threads :
          Returns(t) =>
              /\ is_cached(arg[t])'
              /\ resolve_path(arg[t], <<>>)' = _dataset_dir(arg[t])]_vars

\* C3: when the download or the unwrap step of ensure_downloaded(id) fails,
\* the failure reaches the caller, and when it does id is not cached,
\* resolve_path(id, "") is absent, and the cache root holds neither a
\* directory named id nor the staging directory of the call.  (The state in
\* which the exception is about to leave has these properties, and the step
\* that delivers it changes nothing on disk.)
C3_FailureLeavesNoResidue ==
    /\ [](\A t \in Threads :
             (pc[t] = "raise" /\ err[t] \in {"download", "unwrap"})
             => /\ ~is_cached(arg[t])
                /\ resolve_path(arg[t], <<>>) = None
                /\ entry[arg[t]].kind # "dir"
                /\ tmp[t] = NoTmp)
    /\ [][\A t \in Threads :
             (pc[t] = "raise" /\ pc'[t] = "idle")
             => /\ ret'[t] = [k |-> "raised", id |-> arg[t]]
                /\ entry' = entry
                /\ tmp' = tmp]_vars

\* A call has failed in its download and the failure has reached the caller.
C3_Witness ==
    \E t \in Threads :
        pc[t] = "idle" /\ ret[t].k = "raised" /\ err[t] = "download"

\* The positions of a call that has its download and its unwrap behind it.
AfterDownload ==
    {"rename", "release", "evict", "scan", "evict_loop", "rmtree", "rm_dir"}

\* Thread t is in a call for an identifier of which an earlier call of its
\* own has failed in the download or the unwrap (no other thread has ever
\* failed).
RetriesAfterFailure(t) ==
    /\ arg[t] \in failed
    /\ \A u \in Threads \ {t} : ncalls[u] <= 1 /\ err[u] = "none"

\* C4: a per-dataset lock is held only by a thread inside the with block of a
\* call for that identifier, and a failing call releases it in the step in
\* which the failure reaches the caller; a later call for the identifier
\* downloads again, and if its download and unwrap succeed the call returns
\* the path.
C4_RetryAfterFailure ==
    /\ [](\A id \in Ids :
             lockHolder[id] # NoThread
             => pc[lockHolder[id]] \in InLock /\ arg[lockHolder[id]] = id)
    /\ [](\A t \in Threads :
             (pc[t] \in AfterDownload /\ RetriesAfterFailure(t))
             => downloads[arg[t]] >= 2)
    /\ [][\A t \in Threads :
             (pc[t] = "raise" /\ pc'[t] = "idle")
             => lockHolder'[arg[t]] = NoThread /\ ret'[t].k = "raised"]_vars
    /\ [][\A t \in Threads :
             (pc[t] \in AfterDownload /\ RetriesAfterFailure(t)
                 /\ pc'[t] = "idle")
             => ret'[t].k = "path"]_vars

\* C5: a dataset directory that exists and is non-empty holds the complete
\* unwrapped content of its dataset.
C5_NonEmptyIsComplete ==
    \A id \in Ids : is_cached(id) => entry[id].n = DatasetSize(id)

RECURSIVE SizeSum(_, _)
SizeSum(b, S) ==
    IF S = {} THEN 0
    ELSE LET x == CHOOSE y \in S : TRUE IN b[x].n + SizeSum(b, S \ {x})

\* What C8 says of a sweep that found the disk b and left the disk a.
EvictedOldestPrefix(b, a, m) ==
    LET D == {id \in Ids : b[id].kind = "dir"}
        total == SizeSum(b, D)
        R == {id \in D : a[id].kind = "none"}
        K == D \ R
    IN  /\ \A id \in Ids \ R : a[id] = b[id]
        /\ total <= m => R = {}
        /\ \A r \in R, k \in K : b[r].mtime <= b[k].mtime
        /\ total - SizeSum(b, R) <= m \/ K = {}
        /\ R # {} => \E r \in R :
                        /\ \A q \in R : b[q].mtime <= b[r].mtime
                        /\ total - SizeSum(b, R \ {r}) > m

Subpaths ==
    {<<>>, <<"f1">>, <<"d">>, <<"d", "g">>, <<"x">>, <<"lnk">>, <<"..">>,
     <<"..", "12">>, <<"..", "12", "f1">>, <<"..", "2", "f1">>,
     <<"..", "..", "etc", "passwd">>, <<"", "etc", "passwd">>}

\* The canonical path p is the directory dir or lies inside it.
IsInside(p, dir) == Len(p) >= Len(dir) /\ SubSeq(p, 1, Len(dir)) = dir

\* C6: resolve_path(id, subpath) returns a path only if the canonical result
\* is <root>/<id> or lies inside it and exists on disk; for every subpath
\* whose canonical form lies outside <root>/<id>, a sibling entry such as 12
\* for id 1 included, it returns absent.
C6_ResolveStaysInside ==
    \A id \in Ids, subpath \in Subpaths :
        LET full == resolve(JoinPath(_dataset_dir(id), subpath))
            real == resolve_path(id, subpath)
        IN  /\ real # None =>
                real = full /\ IsInside(full, _dataset_dir(id)) /\ exists(full)
            /\ ~IsInside(full, _dataset_dir(id)) => real = None

\* C7: what getattr, readdir and open serve for a content path lies in the
\* cache directory of the dataset the path names: a successful getattr or
\* open has a real path inside <root>/<id>, and a readdir that returns names
\* has listed a directory inside <root>/<id>.
C7_NothingOutsideExposed ==
    (fsret.k = "ok" /\ fsret.id # 0) =>
        IF fsret.op = "readdir"
        THEN Len(fsret.names) > 2 =>
                 IsInside(fsret.real, _dataset_dir(fsret.id))
        ELSE IsInside(fsret.real, _dataset_dir(fsret.id))

\* Thread t starts and finishes a getattr in this step.
GetattrStep ==
    nops' = nops + 1 /\ fsop' = fsop /\ fsret'.op = "getattr"

\* C9: a getattr step never enters ensure_downloaded nor the download and
\* leaves the cache as it is; on a content path of a listed dataset that is
\* not cached it answers Not-Found.
C9_GetattrNeverDownloads ==
    [][GetattrStep =>
          /\ UNCHANGED cachevars
          /\ (fsret'.id # 0 /\ ~is_cached(fsret'.id)) => fsret'.k = "ENOENT"
      ]_vars

\* Thread t starts a readdir in this step: it is answered at once, or goes
\* on to self._download.
ReaddirStep(t) ==
    /\ nops' = nops + 1
    /\ \/ fsop' = fsop /\ fsret'.op = "readdir" /\ fsret'.t = t
       \/ fsop[t].op = "none" /\ fsop'[t].op = "readdir"

\* The path of the readdir that starts in this step.
ReaddirParts(t) == IF fsop' = fsop THEN fsret'.parts ELSE fsop'[t].parts

\* The names after "." and "..".
Listed(names) == {names[i] : i \in 3..Len(names)}

\* C10: a readdir above the content level is answered without entering
\* ensure_downloaded and leaves the cache as it is: the root lists the display
\* names of the available categories, a category lists the folder names of
\* its current listing, a Published dataset folder lists its version labels;
\* an unknown or hidden category and a folder that is not in the current
\* listing are answered Not-Found, again without a download.  (Where the
\* listing has to be refreshed and the search raises, there is no listing and
\* the exception is the answer.)
C10_ReaddirAboveContentNeverDownloads ==
    [][\A t \in Threads : ReaddirStep(t) =>
          LET parts == ReaddirParts(t)
              answered == fsop' = fsop /\ UNCHANGED cachevars
              visible ==
                  Len(parts) >= 1 /\ InSeq(parts[1], available_categories)
              searched == fsret'.k # "search_failed"
          IN  /\ parts = <<>> =>
                    /\ answered
                    /\ fsret'.k = "ok"
                    /\ fsret'.names = <<".", "..">> \o available_categories
              /\ (Len(parts) >= 1 /\ ~visible) =>
                    answered /\ fsret'.k = "ENOENT"
              /\ (Len(parts) = 1 /\ visible) =>
                    /\ answered
                    /\ searched =>
                          /\ fsret'.k = "ok"
                          /\ fsret'.names =
                               <<".", "..">>
                                   \o listings'[parts[1]].folder_names
              /\ (Len(parts) >= 2 /\ visible /\ fsop' = fsop /\ searched
                    /\ parts[2] \notin DOMAIN listings'[parts[1]].folder_lookup)
                    => fsret'.k = "ENOENT"
              /\ (Len(parts) >= 2 /\ visible /\ fsop' # fsop) =>
                    parts[2] \in DOMAIN listings'[parts[1]].folder_lookup
              /\ (Len(parts) = 2 /\ visible /\ parts[1] = PUBLISHED) =>
                    /\ answered
                    /\ (searched /\ parts[2] \in
                            DOMAIN listings'[parts[1]].folder_lookup) =>
                          /\ fsret'.k = "ok"
                          /\ Len(fsret'.names) =
                                 2 + Cardinality(Listed(fsret'.names))
                          /\ Listed(fsret'.names) =
                               DOMAIN listings'[parts[1]]
                                          .version_map[parts[2]]
      ]_vars

\* The version labels of a Published dataset folder have been listed and
\* nothing was downloaded.
C10_Witness ==
    /\ fsret.op = "readdir"
    /\ fsret.parts = <<PUBLISHED, "p">>
    /\ fsret.names = <<".", "..", "Original", "v1">>
    /\ \A id \in Ids : downloads[id] = 0
    /\ \A t \in Threads : pc[t] = "idle" /\ ncalls[t] = 0

\* ------------------------------------------------------------------------
\* Properties of the content operations
\* ------------------------------------------------------------------------
\* The operation thread t is inside of hands its result back in this step.
Finishes(t) == fsop[t].op # "none" /\ fsop'[t].op = "none"

\* The open or readdir thread t is about to finish asked for something the
\* content of its dataset holds: a file to open, a directory to list.
AsksForContent(t) ==
    /\ fsop[t].op \in {"readdir", "open", "os_open", "take_fh", "store_fh"}
    /\ IF fsop[t].op = "readdir"
       THEN \/ fsop[t].inner = <<>>
            \/ \E c \in Content(fsop[t].id) :
                   c.path = fsop[t].inner /\ c.kind = "dir"
       ELSE \E c \in Content(fsop[t].id) :
                c.path = fsop[t].inner /\ c.kind = "file"

\* C11: a readdir into the content area of a listed dataset, or an open of a
\* file its content holds, succeeds whenever no download of that dataset has
\* failed, and the dataset is downloaded once: a download of a dataset that was
\* downloaded before happens only when its cache entry is gone or empty.
C11_FirstUseDownloadsOnce ==
    /\ [][\A t \in Threads :
             (Finishes(t) /\ AsksForContent(t) /\ fsop[t].id \notin failed)
                 => fsret'.k = "ok"]_vars
    /\ [][\A id \in Ids :
             (downloads'[id] > downloads[id] /\ downloads[id] >= 1
                  /\ id \notin failed) => ~is_cached(id)]_vars

\* ------------------------------------------------------------------------
\* Properties of the read-only surface and of the open handles
\* ------------------------------------------------------------------------
\* A mutating operation runs (and is over) in this step.
MutatingStep ==
    nio' = nio + 1 /\ fsop' = fsop /\ fsret'.op \in MutatingOps

\* C12: every mutating operation, on any path, fails with the read-only
\* filesystem error and leaves the cache (its entries, staging directories
\* and callers), the listings, the open-handle map, the handle counter and
\* the open descriptors as they were; no search and no download is invoked.
C12_MutationsRejected ==
    [][MutatingStep =>
          /\ fsret'.k = "EROFS"
          /\ UNCHANGED <<cachevars, listings, searches, open_fds, next_fh,
                         os_files>>
      ]_vars

\* A mutating operation on a file that is cached, listed and open has been
\* rejected.
C12_Witness ==
    /\ fsret.op \in MutatingOps
    /\ fsret.parts = <<PUBLIC, "a", "f1">>
    /\ fsret.k = "EROFS"
    /\ open_fds # <<>>
    /\ is_cached(1)
    /\ listings[PUBLIC].fetched_at >= 0

\* ------------------------------------------------------------------------
\* Properties of the listings
\* ------------------------------------------------------------------------
\* The categories the catalog holds a snapshot of.
Stored == {c \in CategoryKeys : listings[c].fetched_at >= 0}

\* The identifiers of a list of dataset records.
IdsOf(datasets) == {datasets[i].id : i \in 1..Len(datasets)}

\* C13: for dataset records with pairwise distinct identifiers,
\* deduplicate_names gives every identifier one name and no two identifiers
\* the same name, whatever the names and start times are; so in every listing
\* get_listing has built, folder_lookup[name_map[d.id]] is d for every
\* dataset d that was fetched.
C13_NamesAreUnique ==
    \A c \in Stored :
        LET L == listings[c]
            names == deduplicate_names(L.datasets)
        IN  /\ L.name_map = names
            /\ DOMAIN names = IdsOf(L.datasets)
            /\ \A i, j \in DOMAIN names : i # j => names[i] # names[j]
            /\ \A k \in 1..Len(L.datasets) :
                   LET d == L.datasets[k] IN
                   /\ L.name_map[d.id] \in DOMAIN L.folder_lookup
                   /\ L.folder_lookup[L.name_map[d.id]] = d

\* The version labels a dataset record stands for, each with the identifier
\* it leads to.
LabelsOf(d) ==
    {<<"Original", d.id>>} \cup
    {<<"v" \o ToString(d.versions[i].version), d.versions[i].dataset>> :
         i \in 1..Len(d.versions)}

\* C14: in every listing of the Published category each folder name has a
\* version map with "Original" for the identifier of the folder's dataset and
\* "v<n>" for the dataset of each recorded version n, and nothing else;
\* readdir on the folder returns exactly these labels (after "." and "..");
\* versions 2 and 5 give Original, v2 and v5.  The listings of the other
\* categories have an empty version map.
C14_VersionLabels ==
    /\ \A c \in Stored \ {PUBLISHED} : DOMAIN listings[c].version_map = {}
    /\ PUBLISHED \in Stored =>
          LET L == listings[PUBLISHED] IN
          /\ DOMAIN L.version_map = DOMAIN L.folder_lookup
          /\ \A n \in DOMAIN L.folder_lookup :
                 LET d == L.folder_lookup[n]
                     vm == L.version_map[n]
                 IN  /\ {<<l, vm[l]>> : l \in DOMAIN vm} = LabelsOf(d)
                     /\ {d.versions[i].version : i \in 1..Len(d.versions)}
                            = {2, 5}
                        => /\ DOMAIN vm = {"Original", "v2", "v5"}
                           /\ vm["Original"] = d.id
                           /\ vm["v2"] = 12
                           /\ vm["v5"] = 1
    /\ (fsret.op = "readdir" /\ Len(fsret.parts) = 2 /\ fsret.k = "ok") =>
          LET vm == listings[PUBLISHED].version_map[fsret.parts[2]] IN
          /\ SubSeq(fsret.names, 1, 2) = <<".", "..">>
          /\ Len(fsret.names) = 2 + Cardinality(DOMAIN vm)
          /\ {fsret.names[i] : i \in 3..Len(fsret.names)} = DOMAIN vm

\* The version folders of a dataset with the recorded versions 2 and 5 have
\* been listed.
C14_Witness ==
    /\ fsret.op = "readdir"
    /\ fsret.parts = <<PUBLISHED, "x">>
    /\ fsret.names = <<".", "..", "Original", "v2", "v5">>
    /\ listings[PUBLISHED].version_map["x"] =
           [l \in {"Original", "v2", "v5"} |->
                IF l = "Original" THEN 2 ELSE IF l = "v2" THEN 12 ELSE 1]

\* The catalog holds a snapshot of category c and its age is less than the
\* TTL.
Younger(c) ==
    /\ listings[c].fetched_at >= 0
    /\ time_now - listings[c].fetched_at < _ttl

\* C15: while the snapshot of a category is younger than the TTL, no search
\* of that category is invoked and the snapshot stays as it is, and a call
\* that returns without a search returns such a snapshot; a search of a
\* category is invoked only by a call that finds no snapshot or one at least
\* as old as the TTL, once, and the call then stores a listing of what the
\* search found, stamped with the current time, for that category only, and
\* returns it.
C15_ListingTTL ==
    [][/\ \A c \in CategoryKeys :
             Younger(c) => /\ listings'[c] = listings[c]
                           /\ searches'[c] = searches[c]
       /\ (returned' # returned /\ searches' = searches) =>
             \E c \in CategoryKeys : Younger(c) /\ returned' = listings[c]
       /\ \A c \in CategoryKeys :
             searches'[c] # searches[c] =>
                /\ ~Younger(c)
                /\ searches'[c] = searches[c] + 1
                /\ \A o \in CategoryKeys \ {c} :
                       listings'[o] = listings[o] /\ searches'[o] = searches[o]
                /\ returned' # NoListing =>
                       /\ listings'[c] = returned'
                       /\ returned'.fetched_at = time_now
                       /\ returned'.datasets = service[c]
                /\ returned' = NoListing => listings'[c] = listings[c]
      ]_vars

\* The snapshot of the Public category has expired and has been replaced by
\* the listing of a second search, while the snapshot of the Published
\* category stayed.
C15_Witness ==
    /\ searches[PUBLIC] = 2
    /\ listings[PUBLIC].fetched_at = _ttl
    /\ returned = listings[PUBLIC]
    /\ listings[PUBLISHED].fetched_at = 1
    /\ searches[PUBLISHED] = 1

StoresHandle(t) == fsop[t].op = "store_fh" /\ fsop'[t].op = "none"

\* The descriptors a running open has not yet stored, or a running release
\* has not yet closed.
InTransit ==
    {fsop[t].os_fd : t \in {u \in Threads :
                               fsop[u].op \in {"take_fh", "store_fh", "close"}}}

\* C17: under every interleaving of open, read and release, the handle a
\* successful open returns is greater than every handle in the map and is not
\* in the map, so no mapping of an open handle is overwritten, and every file
\* that open has opened and release has not yet closed is reached through
\* exactly one handle.
C17_HandlesAreFresh ==
    /\ [][\A t \in Threads : StoresHandle(t) =>
              /\ fsret'.fh = fsop[t].fh
              /\ fsop[t].fh \notin DOMAIN open_fds
              /\ \A h \in DOMAIN open_fds :
                     h < fsop[t].fh /\ open_fds'[h] = open_fds[h]
          ]_vars
    /\ [](\A fd \in DOMAIN os_files \ InTransit :
              Cardinality({h \in DOMAIN open_fds : open_fds[h] = fd}) = 1)

\* A read or a release that is answered at once does so in this step.
AnsweredAtOnce(op) == nio' = nio + 1 /\ fsop' = fsop /\ fsret'.op = op

\* Thread t goes on with the descriptor of a handle it has looked up.
LooksUp(t, op) == fsop[t].op = "none" /\ fsop'[t].op = op

\* C18: a read with a handle that is not in the map fails with the bad file
\* descriptor error and changes nothing, and only such a read does; a release
\* of a mapped handle removes that mapping alone and then closes the
\* descriptor it held, which is open until then, once; a release of a handle
\* that is not in the map closes nothing and leaves every mapping as it is.
C18_HandleLifecycle ==
    [][/\ AnsweredAtOnce("read") =>
             /\ fsret'.fh \notin DOMAIN open_fds
             /\ fsret'.k = "EBADF"
             /\ UNCHANGED <<cachevars, listings, searches, handles>>
       /\ AnsweredAtOnce("release") =>
             /\ fsret'.fh \notin DOMAIN open_fds
             /\ fsret'.k = "ok"
             /\ UNCHANGED <<cachevars, listings, searches, handles>>
       /\ \A t \in Threads :
             /\ LooksUp(t, "read") =>
                   /\ fsop'[t].fh \in DOMAIN open_fds
                   /\ fsop'[t].os_fd = open_fds[fsop'[t].fh]
                   /\ UNCHANGED handles
             /\ LooksUp(t, "close") =>
                   /\ fsop'[t].fh \in DOMAIN open_fds
                   /\ fsop'[t].os_fd = open_fds[fsop'[t].fh]
                   /\ DOMAIN open_fds' = DOMAIN open_fds \ {fsop'[t].fh}
                   /\ \A h \in DOMAIN open_fds' : open_fds'[h] = open_fds[h]
                   /\ UNCHANGED <<next_fh, os_files>>
             /\ (fsop[t].op = "close" /\ fsop'[t].op = "none") =>
                   /\ fsret'.k = "ok"
                   /\ fsop[t].os_fd \in DOMAIN os_files
                   /\ DOMAIN os_files' = DOMAIN os_files \ {fsop[t].os_fd}
                   /\ UNCHANGED <<open_fds, next_fh>>
      ]_vars

\* The one handle open has returned was released, its file is closed, and a
\* read with it has been rejected.
C18_Witness ==
    /\ next_fh = 2
    /\ open_fds = <<>>
    /\ os_files = <<>>
    /\ nio = 2
    /\ fsret.op = "read"
    /\ fsret.fh = 1
    /\ fsret.k = "EBADF"

\* ------------------------------------------------------------------------
\* Properties of open
\* ------------------------------------------------------------------------
\* The root, a category, a dataset folder, or a version folder of the
\* Published category.
DirShaped(parts) ==
    \/ Len(parts) <= 2
    \/ Len(parts) = 3 /\ parts[1] = "Published Datasets"

\* The positions of an open after its path was parsed.
InOpen == {"open", "os_open", "take_fh", "store_fh"}

\* C19: open on a directory-shaped path is rejected with the is-a-directory
\* error, without a call of ensure_downloaded and without a handle; open on a
\* file-shaped path whose resolved real path is absent or is a directory is
\* rejected; a rejected open adds no handle and does not advance the handle
\* counter.
C19_OpenRejections ==
    [][/\ (nops' = nops + 1 /\ fsop' = fsop /\ fsret'.op = "open"
              /\ DirShaped(fsret'.parts))
           => /\ fsret'.k = "EISDIR"
              /\ UNCHANGED <<cachevars, handles>>
       /\ \A t \in Threads :
             /\ LooksUp(t, "open") =>
                   ~DirShaped(fsop'[t].parts) /\ UNCHANGED handles
             /\ (fsop[t].op = "open" /\ fsop'[t] # fsop[t]
                    /\ LET real == resolve_path(fsop[t].id, fsop[t].inner)
                       IN  real = None \/ is_dir(real))
                   => /\ fsop'[t].op = "none"
                      /\ fsret'.k \in {"ENOENT", "download_failed"}
             /\ (fsop[t].op \in InOpen /\ fsop'[t].op = "none"
                    /\ fsret'.k # "ok")
                   => UNCHANGED <<open_fds, next_fh>>
      ]_vars

\* An open of a directory inside a cached dataset has been rejected and no
\* handle was given out.
C19_Witness ==
    /\ fsret.op = "open"
    /\ fsret.parts = <<PUBLIC, "a", "d">>
    /\ fsret.k = "ENOENT"
    /\ is_dir(_dataset_dir(1) \o <<"d">>)
    /\ open_fds = <<>>
    /\ next_fh = 1

\* The threads that are between acquiring and releasing the lock of id.
Inside(id) == {t \in Threads : pc[t] \in InLock /\ arg[t] = id}

\* Thread t is inside its call of the service's download.
InDownload(t) == pc[t] = "downloading"

\* C20: at every moment at most one thread is between acquiring and releasing
\* the lock of an identifier, and it is the holder of that lock; so at most
\* one download is running and at most one staging directory exists per
\* identifier. A thread inside its download holds the lock of its own
\* identifier and no other lock, so a thread asking for another identifier
\* waits for nothing that the download holds.
C20_PerDatasetExclusion ==
    /\ \A id \in DOMAIN lockHolder :
          /\ Cardinality(Inside(id)) <= 1
          /\ \A t \in Inside(id) : lockHolder[id] = t
          /\ Cardinality({t \in Threads : InDownload(t) /\ arg[t] = id}) <= 1
          /\ Cardinality({t \in Threads :
                             tmp[t] # NoTmp /\ arg[t] = id}) <= 1
    /\ \A t \in Threads :
          /\ tmp[t] # NoTmp => pc[t] \in InLock
          /\ InDownload(t) =>
                /\ globalHolder # t
                /\ \A id \in DOMAIN lockHolder :
                      lockHolder[id] = t => id = arg[t]

\* Two threads are inside their downloads of different identifiers at the
\* same moment, each with its own staging directory.
C20_Witness ==
    \E t, u \in Threads :
        /\ t # u
        /\ arg[t] # arg[u]
        /\ InDownload(t) /\ InDownload(u)
        /\ tmp[t] # NoTmp /\ tmp[u] # NoTmp

\* ------------------------------------------------------------------------
\* The sweep and the locks
\* ------------------------------------------------------------------------
\* Thread u is executing the eviction sweep (it holds the coarse lock).
Sweeping(u) == pc[u] \in {"scan", "evict_loop", "rmtree", "rm_dir"}

\* Thread t can take its next step of ensure_downloaded now.
CanProceed(t) == ENABLED EnsureStep(t)

\* C21: while a thread is executing the eviction sweep, a call of
\* ensure_downloaded for another identifier, whether its lock exists already
\* or is created by this call, is never made to wait for the sweep: wherever
\* it stands between entering and releasing its per-dataset lock it can take
\* its next step.
C21_SweepNeverBlocksDownload ==
    \A t, u \in Threads :
        (/\ Sweeping(u)
         /\ pc[t] \in {"lock_for", "acquire"} \cup (InLock \ {"release"})
         /\ arg[t] # arg[u]
         /\ lockHolder[arg[t]] \in {NoThread, t})
            => CanProceed(t)

\* Thread t holds no per-dataset lock.
HoldsNoDatasetLock(t) == \A id \in DOMAIN lockHolder : lockHolder[id] # t

\* C22: a thread that is about to sweep or is sweeping holds no per-dataset
\* lock; a thread gets to the sweep only by releasing the per-dataset lock
\* after its rename has installed the entry, and after an install it goes
\* nowhere else; from the cache-hit branch and from a raised failure the call
\* ends without a sweep.
C22_SweepOutsideDatasetLock ==
    /\ [](\A t \in Threads :
             (pc[t] = "evict" \/ Sweeping(t)) => HoldsNoDatasetLock(t))
    /\ [][\A t \in Threads :
             /\ (pc'[t] = "evict" /\ pc[t] # "evict")
                    => /\ pc[t] = "release"
                       /\ lockHolder[arg[t]] = t
                       /\ lockHolder'[arg[t]] = NoThread
             /\ (pc'[t] = "release" /\ pc[t] # "release")
                    => /\ pc[t] = "rename"
                       /\ is_cached(arg[t])'
             /\ (pc[t] = "rename" /\ pc'[t] # "rename" /\ entry' # entry)
                    => pc'[t] = "release"
             /\ pc[t] = "release" => pc'[t] \in {"release", "evict"}
             /\ pc[t] = "evict" => pc'[t] \in {"evict", "scan"}
             /\ (pc'[t] = "scan" /\ pc[t] # "scan") => pc[t] = "evict"
             /\ pc[t] \in {"touch", "raise"} => pc'[t] \in {pc[t], "idle"}
             /\ (pc'[t] = "touch" /\ pc[t] # "touch") => pc[t] = "check"
             /\ pc[t] = "except" => pc'[t] \in {"except", "raise"}
      ]_vars

\* A thread that has installed a dataset is removing entries in its sweep,
\* holding no per-dataset lock, while the other thread is inside its download
\* under its own per-dataset lock.
C22_Witness ==
    \E t, u \in Threads :
        /\ pc[t] = "rmtree"
        /\ HoldsNoDatasetLock(t)
        /\ globalHolder = t
        /\ InDownload(u)
        /\ lockHolder[arg[u]] = u

\* The positions at which a thread has a staging directory, and the stages of
\* the download the directory can be in there.
StagesAt(p) ==
    CASE p \in {"download", "downloading"} -> {"empty"}
      [] p = "unwrap" -> {"raw"}
      [] p = "rename" -> {"flat"}
      [] p = "except" -> {"empty", "partial", "flat"}
      [] OTHER -> {"none"}

\* C23: whatever a sweep has counted is an immediate child of the root it has
\* listed that carries the name of a dataset identifier, and was a directory
\* with the counted size when it was looked at; a listed child that is a
\* staging directory, a directory with another name or a regular file adds
\* nothing to the entries, and the total is the sum over the entries. No step
\* of a sweep removes or changes a foreign child or a staging directory: the
\* foreign children stay as they are, a staging directory changes only by a
\* step of the thread that made it, and while that thread is between mkdtemp
\* and the rename or the clean-up the directory is there in the stage that
\* thread left it in.
C23_SweepTouchesOnlyDatasetDirs ==
    /\ [](\A t \in Threads :
             /\ \A i \in 1..Len(sweep[t].entries) :
                   LET r == sweep[t].entries[i] IN
                   /\ r.id \in Ids
                   /\ r.name = EntryName(r.id)
                   /\ r.name \in sweep[t].listed
                   /\ r.name \notin DOMAIN others
                   /\ \A u \in Threads :
                         tmp[u] # NoTmp => r.name # StagingName(u)
             /\ tmp[t].stage \in StagesAt(pc[t]))
    /\ [][/\ others' = others
          /\ \A u \in Threads : tmp'[u] # tmp[u] => pc'[u] # pc[u]
          /\ \A t \in Threads :
                /\ (pc[t] = "scan" /\ sweep'[t].left # sweep[t].left
                       /\ pc'[t] = "scan")
                      => LET name == CHOOSE n \in sweep[t].left :
                                         n \notin sweep'[t].left
                             es == sweep'[t].entries
                         IN  IF \E id \in Ids : /\ name = EntryName(id)
                                                 /\ entry[id].kind = "dir"
                             THEN /\ Len(es) = Len(sweep[t].entries) + 1
                                  /\ es[Len(es)].name = name
                                  /\ es[Len(es)].size = entry[IdOf(name)].n
                             ELSE es = sweep[t].entries
                /\ (pc[t] = "scan" /\ pc'[t] = "evict_loop")
                      => sweep'[t].total = SumSizes(sweep[t].entries)
         ]_vars

\* A sweep that listed the staging directory of a download in progress and
\* both foreign children is removing a dataset directory; the download is
\* still under way with its staging directory in place.
C23_Witness ==
    \E t, u \in Threads :
        /\ pc[t] = "rmtree"
        /\ InDownload(u)
        /\ tmp[u].stage = "empty"
        /\ StagingName(u) \in sweep[t].listed
        /\ DOMAIN ForeignChildren \subseteq sweep[t].listed
        /\ others = ForeignChildren
        /\ Len(sweep[t].entries) = 1

\* ------------------------------------------------------------------------
\* The LRU clock
\* ------------------------------------------------------------------------
\* This step installs the entry of id (the rename of some call succeeds).
Installs(t, id) == pc[t] = "rename" /\ arg[t] = id /\ pc'[t] = "release"

\* This step is the touch of a cache hit of ensure_downloaded for id.
Hits(t, id) == pc[t] = "touch" /\ arg[t] = id /\ pc'[t] = "idle"

\* This step is one of a removal of the entry of id by shutil.rmtree.
Removes(id) ==
    /\ entry'[id].n < entry[id].n
    /\ \E t \in Threads : pc[t] \in {"rmtree", "cleanup_rm"}

\* The body of ensure_downloaded, from its entry to the end of the with block.
InEnsure == {"lock_for", "acquire"} \cup InLock

C25_DatasetFolderStat ==
    [][(/\ GetattrStep
        /\ Len(fsret'.parts) = 2
        /\ fsret'.k # "search_failed"
        /\ fsret'.parts[2] \in
               DOMAIN listings'[_parse_path(fsret'.parts).category]
                          .folder_lookup)
          => LET listing == listings'[_parse_path(fsret'.parts).category]
             IN  /\ fsret'.k = "ok"
                 /\ fsret'.st.mode = "dir"
                 /\ fsret'.st.mtime = listing.timestamps[fsret'.parts[2]]
                 /\ UNCHANGED cachevars
      ]_vars

\* ------------------------------------------------------------------------
\* Snapshots of the catalog
\* ------------------------------------------------------------------------
\* The objects built for category c.
ObjectsOf(c) == {o \in DOMAIN objects : objects[o].category = c}

\* The object built last for category c (0: none was).
LastStored(c) ==
    IF ObjectsOf(c) = {} THEN 0
    ELSE CHOOSE o \in ObjectsOf(c) : \A q \in ObjectsOf(c) : q <= o

\* Every field of the listing l is what get_listing builds from l.datasets.
FullyBuilt(c, l) ==
    l = [BuildListingOf(c, l.datasets) EXCEPT !.fetched_at = l.fetched_at]

\* C26: no step changes any field of a listing object that exists, so the
\* object a caller holds stays as it was returned, whatever is refreshed
\* later; a refresh invokes its own search and builds its own new object from
\* what that search answered; the slot of a category holds at every moment
\* nothing or a fully built object, namely the one stored last for the
\* category, and it changes only by the store of a refresh of that category.
C26_SnapshotsReplacedWholesale ==
    /\ [](\A c \in CategoryKeys :
             /\ cache_ref[c] = LastStored(c)
             /\ cache_ref[c] # 0 =>
                   /\ listings[c] = objects[cache_ref[c]].listing
                   /\ FullyBuilt(c, listings[c])
             /\ cache_ref[c] = 0 => listings[c] = NoListing)
    /\ [](\A t \in Threads : glcall[t].ref # 0 =>
             /\ glcall[t].ref \in ObjectsOf(glcall[t].category)
             /\ FullyBuilt(glcall[t].category, objects[glcall[t].ref].listing))
    /\ [][/\ \A o \in DOMAIN objects :
                o \in DOMAIN objects' /\ objects'[o] = objects[o]
          /\ \A t \in Threads :
                /\ (glcall[t].pc = "fetch" /\ glcall'[t].pc # "fetch")
                      => /\ searches'[glcall[t].category]
                              = searches[glcall[t].category] + 1
                         /\ glcall'[t].pc = "store"
                               => glcall'[t].datasets
                                      = service[glcall[t].category]
                /\ (glcall[t].pc = "store" /\ glcall'[t].pc # "store")
                      => /\ Len(objects') = Len(objects) + 1
                         /\ glcall'[t].ref = Len(objects')
                         /\ cache_ref'[glcall[t].category] = Len(objects')
                         /\ objects'[Len(objects')].listing.datasets
                                = glcall[t].datasets
                         /\ objects'[Len(objects')].listing.fetched_at
                                = time_now
          /\ \A c \in CategoryKeys :
                cache_ref'[c] # cache_ref[c]
                   => \E t \in Threads : /\ glcall[t].pc = "store"
                                          /\ glcall[t].category = c
                                          /\ glcall'[t].pc = "idle"
         ]_vars

\* Both threads have found the snapshot of the Public category expired and
\* have each had an answer from a search of their own, the two answers differ,
\* and the slot still holds the old snapshot, which is fully built.
C26_Witness ==
    /\ \A t \in Threads : /\ glcall[t].pc = "store"
                           /\ glcall[t].category = PUBLIC
    /\ glcall[1].datasets # glcall[2].datasets
    /\ cache_ref[PUBLIC] = 1
    /\ searches[PUBLIC] = 3
    /\ time_now - listings[PUBLIC].fetched_at >= _ttl

\* ------------------------------------------------------------------------
\* The budget when nothing is running
\* ------------------------------------------------------------------------
\* No call of ensure_downloaded is in progress.
Quiescent == \A t \in Threads : pc[t] = "idle"

\* The total size of the dataset directories under the cache root.
CacheTotal == SizeSum(entry, {id \in Ids : entry[id].kind = "dir"})

\* C27: the cache starts within its budget, and whenever no call of
\* ensure_downloaded is in progress the sizes of the dataset directories
\* under the cache root add up to at most max_bytes.
C27_BudgetAtQuiescence == Quiescent => CacheTotal <= max_bytes

\* ------------------------------------------------------------------------
\* Lock order and completion
\* ------------------------------------------------------------------------
\* Thread t is waiting for a per-dataset lock.
WaitsForDatasetLock(t) == pc[t] = "acquire"

\* Thread t is waiting for the coarse lock.
WaitsForCoarseLock(t) == pc[t] \in {"lock_for", "evict"}

\* Thread t is inside a call of ensure_downloaded.
InCall(t) == pc[t] # "idle"

\* C28: a thread waiting for a per-dataset lock does not hold the coarse
\* lock, a thread waiting for the coarse lock holds no per-dataset lock, and
\* under fair scheduling with downloads that end every call of
\* ensure_downloaded gets back to its caller, with a path or an exception.
C28_DeadlockFreeAndCompletes ==
    /\ [](\A t \in Threads :
             /\ WaitsForDatasetLock(t) => globalHolder # t
             /\ WaitsForCoarseLock(t) => HoldsNoDatasetLock(t))
    /\ \A t \in Threads :
          InCall(t) ~> (~InCall(t) /\ ret[t].k \in {"path", "raised"})

\* One thread waits for the per-dataset lock the other holds while it
\* downloads, and the coarse lock is free.
C28_Witness ==
    /\ WaitsForDatasetLock(1)
    /\ lockHolder[arg[1]] = 2
    /\ pc[2] = "downloading"
    /\ globalHolder = NoThread

\* ------------------------------------------------------------------------
\* Reads at their own offsets
\* ------------------------------------------------------------------------
\* What a read of size bytes at offset of the file real has to return.
BytesAt(real, size, offset) ==
    LET bytes == FileBytes(real)
        from == IF offset < Len(bytes) THEN offset ELSE Len(bytes)
        upto == IF from + size < Len(bytes) THEN from + size ELSE Len(bytes)
    IN  SubSeq(bytes, from + 1, upto)

\* C29: a read on a mapped handle whose descriptor is open returns the bytes
\* of the file that start at the offset this read asked for, as many as it
\* asked for or those left before the end of the file, whatever other reads
\* are in progress on the same handle.
C29_ReadsAtOwnOffset ==
    [][\A t \in Threads :
          (/\ fsop[t].op = "os_read"
           /\ fsop'[t].op = "none"
           /\ fsret'.k = "ok")
             => fsret'.data = BytesAt(os_files[fsop[t].os_fd], fsop[t].size,
                                       fsop[t].offset)]_vars

\* ------------------------------------------------------------------------
\* What is listed can be stat'ed
\* ------------------------------------------------------------------------
\* A readdir of thread t hands its names back in this step: at once, or after
\* the download.
ReaddirDelivers(t) ==
    /\ fsret'.t = t
    /\ fsret'.op = "readdir"
    /\ fsret'.k = "ok"
    /\ \/ ReaddirStep(t) /\ fsop' = fsop
       \/ fsop[t].op = "readdir" /\ Finishes(t)

\* The path is above the content of a dataset: the root, a category, or a
\* Published dataset folder.
AboveContent(parts) ==
    \/ Len(parts) <= 1
    \/ Len(parts) = 2 /\ _parse_path(parts).category = PUBLISHED

\* C30: at the moment a readdir hands back its names, with the listings and
\* the cache as that readdir found them, getattr of every name (other than
\* "." and "..") as a child of the listed path succeeds: a directory for a
\* root entry, a dataset folder and a version label, a file or a directory
\* for a name in the content of a downloaded dataset.
C30_ListedNamesStat ==
    [][\A t \in Threads : ReaddirDelivers(t) =>
          \A n \in Listed(fsret'.names) :
              LET st == getattr_within(Append(fsret'.parts, n), listings')
              IN  /\ st.k = "ok"
                  /\ st.st.mode \in {"dir", "file"}
                  /\ AboveContent(fsret'.parts) => st.st.mode = "dir"
      ]_vars

====
